---------------------------- MODULE Spec2Model ----------------------------
(***************************************************************************)
(* A model of the NeRF sample (samples/general/nerf/nerf.cpp): scene       *)
(* resolution (read_json_map), MLP weight packing                          *)
(* (initialize_mlp_uniform_buffers), the instancing lattice                *)
(* (prepare_instance_data), the two render topologies, and the             *)
(* prepare / render / resize life cycle.                                   *)
(*                                                                         *)
(* Arrays keep the code's 0-based indices: an array of n elements is a     *)
(* function on 0..n-1.  JSON arrays (inputs) are sequences.                *)
(***************************************************************************)
EXTENDS Integers, Sequences, FiniteSets, TLC

(***************************************************************************)
(* Bounds of the model.                                                    *)
(***************************************************************************)
\* Largest number of 4-element groups of a padded layer-2 segment.
MaxGroups == 2
\* Largest instancing dimension per axis drawn for the lattice.
MaxDim == 4
\* Groups of 4 in each unpadded segment (layers 0 and 1, weights and biases).
HiddenGroups == 1
\* Largest obj_num (sub-models per top-level model) of an MLP description.
MaxObjNum == 2
\* Largest number of resize events of one run.
MaxResizes == 2
\* Largest number of swapchain images (render frames).
MaxFrames == 2
\* Largest number of frames submitted in one run.
MaxSubmits == 2
\* Largest number of top-level models of a combo scene.
MaxModels == 2
MaxComboModels == 5

(***************************************************************************)
(* Small helpers.                                                          *)
(***************************************************************************)
Range(f) == {f[x] : x \in DOMAIN f}

Size(a) == Cardinality(DOMAIN a)

\* The empty 0-based array.
EmptyArr == [k \in {} |-> 0]

\* A 0-based array of n copies of v (std::vector::resize of new elements).
Filled(n, v) == [k \in 0..(n - 1) |-> v]

\* std::vector::resize(n): keeps the first n elements, appends copies of v.
Resized(a, n, v) == [k \in 0..(n - 1) |-> IF k \in DOMAIN a THEN a[k] ELSE v]

Abs(x) == IF x < 0 THEN -x ELSE x

RECURSIVE Pow2(_)
Pow2(e) == IF e <= 0 THEN 1 ELSE 2 * Pow2(e - 1)


(***************************************************************************)
(* State.                                                                  *)
(***************************************************************************)
VARIABLES
  build,               \* the build and platform: layer-2 group counts (nerf.h),
                       \* FP contraction, number of swapchain images
  json,                \* the scene document's target scene (input)
  mlp_json,            \* per top-level model, its mlp.json (input)
  pc,                  \* position of the program
  combo_mode,
  model_path,          \* 0-based array of the resolved model paths
  using_original_nerf_models,
  use_deferred,
  camera_pos,          \* "json": read from the scene, "default": left as constructed
  instancing_info,     \* [dim, interval]
  mlp_weight_vector,   \* per top-level model, its MLP_Weights::data
  mlp_written,         \* per top-level model, how often each data index was written
  mlp_log,             \* the LOGE lines of the count checks: <<model, array>>
  mlp_i,               \* prepare's loop counter over initialize_mlp_uniform_buffers
  models,              \* 0-based array of Model entries
  instance_data,       \* 0-based array of pos_offset triples (the instance buffer's content)
  upload_log,          \* the events of the load-time uploads, in program order
  \* ApiVulkanSample (framework) members
  prepared,
  render_pass,         \* the framework's (UI) render pass
  invalid_destroys,    \* handles passed to vkDestroy*/vkFreeMemory while not live
  width,
  height,
  surface_extent,      \* get_render_context().get_surface_extent()
  swapchain_buffers,   \* 0-based array of [view]
  depth_stencil,       \* [view]
  framebuffers,        \* 0-based array of the UI framebuffers
  draw_cmd_buffers,    \* 0-based array of the recorded command buffers
  \* the Vulkan device
  next_handle,         \* the next handle the device hands out
  device,              \* the live objects: handle -> object
  \* Nerf members
  shader_stages_first_pass,
  shader_stages_second_pass,
  render_pass_nerf,
  frameAttachments,    \* 0-based array of [feature_0, feature_1, feature_2]
  nerf_framebuffers,   \* 0-based array of framebuffer handles
  uniform_buffers,
  weights_buffers,
  instance_buffer,
  descriptor_set_first_pass_layout,
  pipeline_first_pass_layout,
  descriptor_set_layout_baseline,
  pipeline_layout_baseline,
  descriptor_pool,
  descriptor_set_baseline,
  pipeline_baseline,
  \* the run
  frames_submitted,    \* number of frames draw() has submitted
  last_submit,         \* the command buffer of the last submission and the uniform
                       \* versions it saw, << >> if none
  resizes,             \* number of resize events handled
  in_flight,           \* the buffers read by command buffers executing on the device
  write_overlaps,      \* the buffers the host wrote while the device was reading them
  index_errors         \* the container accesses made at an index not below the size

sceneVars == <<combo_mode, model_path, using_original_nerf_models, use_deferred,
               camera_pos, instancing_info>>
mlpWeightVars == <<mlp_weight_vector, mlp_written, mlp_log, mlp_i>>
mlpVars == <<mlpWeightVars, models>>
inputVars == <<build, json, mlp_json>>
\* What a rebuild of the framebuffers and command buffers reads and writes.
gpuVars == <<prepared, invalid_destroys,
                 render_pass, width, height, surface_extent, swapchain_buffers, depth_stencil,
             framebuffers, draw_cmd_buffers, next_handle, device, frameAttachments,
             nerf_framebuffers, descriptor_set_baseline>>
\* The pass topology.
topoVars == <<shader_stages_first_pass, shader_stages_second_pass, render_pass_nerf,
              descriptor_set_first_pass_layout, pipeline_first_pass_layout,
              descriptor_set_layout_baseline, pipeline_layout_baseline,
              descriptor_pool, pipeline_baseline>>
bufVars == <<uniform_buffers, weights_buffers, instance_buffer, instance_data, upload_log>>
runVars == <<frames_submitted, last_submit, resizes, in_flight, write_overlaps,
             index_errors>>
\* Everything prepare creates after the MLP packing.
laterVars == <<gpuVars, topoVars, bufVars, runVars>>

vars == <<inputVars, pc, sceneVars, mlpVars, laterVars>>

(***************************************************************************)
(* The MLP element counts (nerf.h).  The shipped network has 176, 256 and  *)
(* 64 weights and 16, 16 and 4 biases; layer 2 is 16 rows of 3 weights     *)
(* padded to 16 groups of 4, and 3 biases padded to one group of 4.  The   *)
(* model keeps the shape (multiples of 4, layer 2 padded 3 -> 4) and       *)
(* scales the group counts: build.gw and build.gb groups for layer 2.      *)
(***************************************************************************)
\* HiddenGroups: groups of 4 in each unpadded segment (layers 0 and 1).

WEIGHTS_0_COUNT == 4 * HiddenGroups
WEIGHTS_1_COUNT == 4 * HiddenGroups
WEIGHTS_2_COUNT == 4 * build.gw
BIAS_0_COUNT == 4 * HiddenGroups
BIAS_1_COUNT == 4 * HiddenGroups
BIAS_2_COUNT == 4 * build.gb

\* The literals of the count checks: "WEIGHTS_2_COUNT - 16", "BIAS_2_COUNT - 1"
\* are the numbers of padding positions of the two padded segments.
WEIGHTS_2_PADS == build.gw
BIAS_2_PADS == build.gb

\* sizeof(MLP_Weights) / sizeof(float)
MLP_DATA_COUNT == WEIGHTS_0_COUNT + WEIGHTS_1_COUNT + WEIGHTS_2_COUNT +
                  BIAS_0_COUNT + BIAS_1_COUNT + BIAS_2_COUNT

\* Offsets of the six segments in MLP_Weights::data.
OFF_W0 == 0
OFF_W1 == WEIGHTS_0_COUNT
OFF_W2 == WEIGHTS_0_COUNT + WEIGHTS_1_COUNT
OFF_B0 == WEIGHTS_0_COUNT + WEIGHTS_1_COUNT + WEIGHTS_2_COUNT
OFF_B1 == WEIGHTS_0_COUNT + WEIGHTS_1_COUNT + WEIGHTS_2_COUNT + BIAS_0_COUNT
OFF_B2 == WEIGHTS_0_COUNT + WEIGHTS_1_COUNT + WEIGHTS_2_COUNT + BIAS_0_COUNT + BIAS_1_COUNT

(***************************************************************************)
(* The MLP description of a model.  The packer moves values and never      *)
(* computes with them, so the numbers of a description are distinct        *)
(* non-zero tags: Tag(m, a, i) is element i of (flattened) array a of      *)
(* model m.  Arrays: 0 = 0_weights, 1 = 1_weights, 2 = 2_weights,          *)
(* 3 = 0_bias, 4 = 1_bias, 5 = 2_bias.                                     *)
(***************************************************************************)
Tag(m, a, i) == 1000 * (m + 1) + 100 * a + i + 1

\* A weight matrix of L numbers in rows of w (the last row may be short).
Rows(m, a, L, w) ==
  [r \in 1..((L + w - 1) \div w) |->
     [c \in 1..(IF r * w <= L THEN w ELSE L - (r - 1) * w) |->
        Tag(m, a, (r - 1) * w + c - 1)]]

BiasVec(m, a, L) == [i \in 1..L |-> Tag(m, a, i - 1)]

\* lens: the six array lengths, as a sequence indexed 1..6 by a + 1.
Description(m, obj_num, lens) ==
  [obj_num   |-> obj_num,
   weights_0 |-> Rows(m, 0, lens[1], 2),
   weights_1 |-> Rows(m, 1, lens[2], 2),
   weights_2 |-> Rows(m, 2, lens[3], 3),
   bias_0    |-> BiasVec(m, 3, lens[4]),
   bias_1    |-> BiasVec(m, 4, lens[5]),
   bias_2    |-> BiasVec(m, 5, lens[6])]

\* The lengths the count checks expect, for group counts gw and gb.
ExpectedLens(gw, gb) ==
  <<4 * HiddenGroups, 4 * HiddenGroups, 3 * gw,
    4 * HiddenGroups, 4 * HiddenGroups, 3 * gb>>

\* Lengths off by at most one element: the two layer-2 arrays vary
\* independently, and at most one of the four unpadded arrays is off.
Near(n) == (n - 1)..(n + 1)

NearLens(gw, gb) ==
  {<<IF a = 1 THEN h ELSE 4 * HiddenGroups, IF a = 2 THEN h ELSE 4 * HiddenGroups, l3,
     IF a = 4 THEN h ELSE 4 * HiddenGroups, IF a = 5 THEN h ELSE 4 * HiddenGroups, l6>> :
     a \in {1, 2, 4, 5}, h \in Near(4 * HiddenGroups), l3 \in Near(3 * gw), l6 \in Near(3 * gb)}

(***************************************************************************)
(* initialize_mlp_uniform_buffers: flattening and packing.                 *)
(***************************************************************************)
\* weights_k_array.insert(end, row.begin(), row.end()) over the rows.
RECURSIVE Flatten(_)
Flatten(raw) == IF raw = << >> THEN << >> ELSE Head(raw) \o Flatten(Tail(raw))

\* What a read past the end of a std::vector yields: undefined behaviour.
\* The packer marks the element; the action chooses among the outcomes.
OOB == 0 - 999
Garbage == {0, -1}

\* src[i] with the code's 0-based index.
Rd(src, i) == IF i < Len(src) THEN src[i + 1] ELSE OOB

\* for (ii = 0; ii < count; ii++) data[base + ii] = src[ii];
CopyLoop(base, count, src) ==
  [ii \in 1..count |-> [idx |-> base + ii - 1, val |-> Rd(src, ii - 1)]]

\* A packer that pads the first element of every group of 4 instead of the
\* last: the padding rule C1 states is what tells the two apart.
RECURSIVE Layer2WeightLoopPadFirst(_, _, _, _, _)
Layer2WeightLoopPadFirst(ii, count, base, raw_weight_cnt, src) ==
  IF ii >= count THEN << >>
  ELSE IF ii % 4 = 0
       THEN <<[idx |-> base + ii, val |-> 0]>>
              \o Layer2WeightLoopPadFirst(ii + 1, count, base, raw_weight_cnt, src)
       ELSE <<[idx |-> base + ii, val |-> Rd(src, raw_weight_cnt)]>>
              \o Layer2WeightLoopPadFirst(ii + 1, count, base, raw_weight_cnt + 1, src)

\* The layer-2 weight loop: a zero at every 4th position, the next source
\* element (raw_weight_cnt++) at the others.
RECURSIVE Layer2WeightLoop(_, _, _, _, _)
Layer2WeightLoop(ii, count, base, raw_weight_cnt, src) ==
  IF ii >= count THEN << >>
  ELSE IF (ii + 1) % 4 = 0
       THEN <<[idx |-> base + ii, val |-> 0]>> \o
            Layer2WeightLoop(ii + 1, count, base, raw_weight_cnt, src)
       ELSE <<[idx |-> base + ii, val |-> Rd(src, raw_weight_cnt)]>> \o
            Layer2WeightLoop(ii + 1, count, base, raw_weight_cnt + 1, src)

\* The layer-2 bias loop: a zero at every 4th position, bias_2_array[ii] at
\* the others.
Layer2BiasLoop(count, base, src) ==
  [k \in 1..count |->
     [idx |-> base + k - 1,
      val |-> IF k % 4 = 0 THEN 0 ELSE Rd(src, k - 1)]]

\* A packer whose 0_bias segment starts one element early, over the last
\* element of the 2_weights segment: the layout C3 states rules it out.
PackWritesOverlap(d) ==
  CopyLoop(OFF_W0, WEIGHTS_0_COUNT, Flatten(d.weights_0)) \o
  CopyLoop(OFF_W1, WEIGHTS_1_COUNT, Flatten(d.weights_1)) \o
  Layer2WeightLoop(0, WEIGHTS_2_COUNT, OFF_W2, 0, Flatten(d.weights_2)) \o
  CopyLoop(OFF_B0 - 1, BIAS_0_COUNT, d.bias_0) \o
  CopyLoop(OFF_B1, BIAS_1_COUNT, d.bias_1) \o
  Layer2BiasLoop(BIAS_2_COUNT, OFF_B2, d.bias_2)

\* The writes to model_mlp->data, in program order.
PackWrites(d) ==
  CopyLoop(OFF_W0, WEIGHTS_0_COUNT, Flatten(d.weights_0)) \o
  CopyLoop(OFF_W1, WEIGHTS_1_COUNT, Flatten(d.weights_1)) \o
  Layer2WeightLoop(0, WEIGHTS_2_COUNT, OFF_W2, 0, Flatten(d.weights_2)) \o
  CopyLoop(OFF_B0, BIAS_0_COUNT, d.bias_0) \o
  CopyLoop(OFF_B1, BIAS_1_COUNT, d.bias_1) \o
  Layer2BiasLoop(BIAS_2_COUNT, OFF_B2, d.bias_2)

\* data after the writes ws, applied in order to data0: each index holds the
\* value of the last write to it.
ApplyWrites(data0, ws) ==
  [k \in DOMAIN data0 |->
     LET hits == {j \in 1..Len(ws) : ws[j].idx = k}
     IN  IF hits = {} THEN data0[k]
         ELSE ws[CHOOSE j \in hits : \A h \in hits : h <= j].val]

\* How often the writes ws store to index k.
WriteCount(ws, k) == Cardinality({j \in 1..Len(ws) : ws[j].idx = k})

\* mlp_weight_vector.resize(n) value-initialises each MLP_Weights.
ZeroWeights == Filled(MLP_DATA_COUNT, 0)

\* The LOGE lines of the six count checks for description d of model m.
CountErrors(m, d) ==
  {<<m, a>> : a \in
     {a \in 0..5 :
        \/ a = 0 /\ Len(Flatten(d.weights_0)) # WEIGHTS_0_COUNT
        \/ a = 1 /\ Len(Flatten(d.weights_1)) # WEIGHTS_1_COUNT
        \/ a = 2 /\ Len(Flatten(d.weights_2)) # WEIGHTS_2_COUNT - WEIGHTS_2_PADS
        \/ a = 3 /\ Len(d.bias_0) # BIAS_0_COUNT
        \/ a = 4 /\ Len(d.bias_1) # BIAS_1_COUNT
        \/ a = 5 /\ Len(d.bias_2) # BIAS_2_COUNT - BIAS_2_PADS}}


(***************************************************************************)
(* binary32 arithmetic.  A float is modelled by the integer v * 2^28; the  *)
(* floats of the model are multiples of 2^-28 below 8, so sums and         *)
(* products are computed exactly as integers and then rounded to 24        *)
(* significant bits, ties to even, as the hardware does.                   *)
(***************************************************************************)
RECURSIVE BitLen(_)
BitLen(n) == IF n = 0 THEN 0 ELSE 1 + BitLen(n \div 2)

RoundF(m) ==
  LET a == Abs(m)
      e == BitLen(a) - 24
  IN  IF e <= 0 THEN m
      ELSE LET p  == Pow2(e)
               q  == a \div p
               r  == a % p
               up == IF r > p \div 2 \/ (r = p \div 2 /\ q % 2 = 1) THEN 1 ELSE 0
               v  == (q + up) * p
           IN  IF m < 0 THEN 0 - v ELSE v

\* a * 0.5f: exact (the floats of the model are even multiples of 2^-28).
FMulHalf(a) == a \div 2
\* a * float(n) for a small integer n.
FMulInt(a, n) == RoundF(a * n)
FAdd(a, b) == RoundF(a + b)
\* fma(a, float(n), c): one rounding.
FMulIntAdd(c, a, n) == RoundF(c + a * n)

\* 0.1f = 13421773 * 2^-27, 1.5f, and their negations and zero.
F_0_1 == 13421773 * 2
F_1_5 == 3 * Pow2(27)

(***************************************************************************)
(* prepare_instance_data: the instancing lattice.                          *)
(***************************************************************************)
\* A corner without the factor 0.5: the lattice then starts at
\* -interval * (dim - 1) and is not centred on the origin.
CornerPosNoHalf(ii) == [c \in 1..3 |-> FMulInt(0 - ii.interval[c], ii.dim[c] - 1)]

\* corner_pos = -ii.interval * 0.5f * glm::vec3(ii.dim - 1), per component.
CornerPos(ii) == [c \in 1..3 |-> FMulInt(FMulHalf(0 - ii.interval[c]), ii.dim[c] - 1)]

\* corner_pos.c + ii.interval.c * k, contracted to one fma or not.
PosComponent(ii, c, k) ==
  IF build.fma THEN FMulIntAdd(CornerPos(ii)[c], ii.interval[c], k)
  ELSE FAdd(CornerPos(ii)[c], FMulInt(ii.interval[c], k))

PosOffset(ii, x, y, z) ==
  <<PosComponent(ii, 1, x), PosComponent(ii, 2, y), PosComponent(ii, 3, z)>>

\* The three nested loops; each iteration stores to instance_data[idx++].
RECURSIVE LoopZ(_, _, _, _)
LoopZ(ii, x, y, z) ==
  IF z >= ii.dim[3] THEN << >>
  ELSE <<PosOffset(ii, x, y, z)>> \o LoopZ(ii, x, y, z + 1)

RECURSIVE LoopY(_, _, _)
LoopY(ii, x, y) ==
  IF y >= ii.dim[2] THEN << >>
  ELSE LoopZ(ii, x, y, 0) \o LoopY(ii, x, y + 1)

RECURSIVE LoopX(_, _)
LoopX(ii, x) ==
  IF x >= ii.dim[1] THEN << >>
  ELSE LoopY(ii, x, 0) \o LoopX(ii, x + 1)

\* A lattice stored z outer, x inner: the same offsets at other indices.
InstanceDataZOuter(ii) ==
  [k \in 0..(ii.dim[1] * ii.dim[2] * ii.dim[3] - 1) |->
     PosOffset(ii, k % ii.dim[1], (k \div ii.dim[1]) % ii.dim[2],
               k \div (ii.dim[1] * ii.dim[2]))]

\* instance_data after resize(dim.x * dim.y * dim.z) and the loops.
InstanceData(ii) ==
  LET stored == LoopX(ii, 0)
      n == ii.dim[1] * ii.dim[2] * ii.dim[3]
  IN  [k \in 0..(n - 1) |-> IF k < Len(stored) THEN stored[k + 1] ELSE <<0, 0, 0>>]

(***************************************************************************)
(* read_json_map: scene resolution.                                        *)
(*                                                                         *)
(* json.combo is "absent", "true" or "false"; json.models is the size of   *)
(* the "models" array; json.camera, json.dim_shape, json.interval_shape    *)
(* say how the field is given: "ok" (an array of 3 numbers), "absent",     *)
(* "short" (an array of another size), "nonnum" (an array of 3 whose       *)
(* elements are not numbers: get<T>() throws).                             *)
(***************************************************************************)
Shapes == {"ok", "absent", "short", "nonnum"}

\* is_array() && size() == 3
IsArray3(shape) == shape \in {"ok", "nonnum"}

\* A positivity check that looks at the dimensions only.
NonPositiveDim(dim, interval) == dim[1] <= 0 \/ dim[2] <= 0 \/ dim[3] <= 0

\* The positivity check of the instancing settings.
NonPositive(dim, interval) ==
  \/ dim[1] <= 0 \/ dim[2] <= 0 \/ dim[3] <= 0
  \/ interval[1] <= 0 \/ interval[2] <= 0 \/ interval[3] <= 0

\* A resolution that is fatal on a camera that is not a 3-element array too.
ReadJsonMapEndCameraFatal(j) ==
  IF ~IsArray3(j.camera) THEN "exited"
  ELSE IF j.camera = "nonnum" THEN "aborted"
  ELSE IF ~IsArray3(j.dim_shape) THEN "exited"
  ELSE IF j.dim_shape = "nonnum" THEN "aborted"
  ELSE IF ~IsArray3(j.interval_shape) THEN "exited"
  ELSE IF j.interval_shape = "nonnum" THEN "aborted"
  ELSE IF NonPositive(j.dim, j.interval) THEN "exited"
  ELSE "mlp"

\* Where read_json_map ends for document j: "aborted" (an uncaught json
\* exception), "exited" (exit(1)), or "mlp" (it returns to prepare).
ReadJsonMapEnd(j) ==
  IF j.camera = "nonnum" THEN "aborted"
  ELSE IF ~IsArray3(j.dim_shape) THEN "exited"
  ELSE IF j.dim_shape = "nonnum" THEN "aborted"
  ELSE IF ~IsArray3(j.interval_shape) THEN "exited"
  ELSE IF j.interval_shape = "nonnum" THEN "aborted"
  ELSE IF NonPositive(j.dim, j.interval) THEN "exited"
  ELSE "mlp"

NoInstancing == [dim |-> <<0, 0, 0>>, interval |-> <<0, 0, 0>>]

ReadJsonMap ==
  /\ pc = "read_json_map"
  /\ combo_mode' = (json.combo = "true")
  /\ model_path' = Filled(IF json.combo = "true" THEN json.models ELSE 1, "path")
  /\ using_original_nerf_models' =
       [k \in 0..((IF json.combo = "true" THEN json.models ELSE 1) - 1) |-> json.original[k + 1]]
  /\ use_deferred' = json.deferred
  /\ camera_pos' = IF json.camera = "ok" THEN "json" ELSE "default"
  /\ instancing_info' =
       [dim      |-> IF json.camera # "nonnum" /\ json.dim_shape = "ok"
                     THEN json.dim ELSE NoInstancing.dim,
        interval |-> IF json.camera # "nonnum" /\ json.dim_shape = "ok"
                        /\ json.interval_shape = "ok"
                     THEN json.interval ELSE NoInstancing.interval]
  /\ pc' = ReadJsonMapEnd(json)
  /\ UNCHANGED <<inputVars, mlpVars, laterVars>>


(***************************************************************************)
(* prepare, lines 407-413: mlp_weight_vector.resize(model_path.size()),    *)
(* then initialize_mlp_uniform_buffers(i) for each top-level model.  One   *)
(* step is one call.  A call that reads past the end of a source array     *)
(* (undefined behaviour) either stores whatever it read or crashes.        *)
(***************************************************************************)
\* models.resize(models.size() + obj_num), model_index and sub_model_num set.
WithSubModels(ms, m, obj_num) ==
  [k \in 0..(Size(ms) + obj_num - 1) |->
     IF k < Size(ms) THEN ms[k]
     ELSE [model_index |-> m, sub_model_num |-> obj_num, loads |-> << >>,
           indices |-> 0,
           texture_input_0 |-> 0, texture_input_1 |-> 0,
           vertex_buffer |-> 0, index_buffer |-> 0,
           uniform_buffer_ref |-> 0 - 1, weights_buffer_ref |-> 0 - 1,
           descriptor_set_first_pass |-> << >>, pipeline_first_pass |-> 0]]

InitializeMlpUniformBuffers ==
  /\ pc = "mlp"
  /\ \E ws \in {PackWrites(mlp_json[mlp_i])} :
     \E raw \in {ApplyWrites(ZeroWeights, ws)} :
     \E oob \in {{k \in DOMAIN raw : raw[k] = OOB}} :
     \E crash \in (IF oob = {} THEN {FALSE} ELSE BOOLEAN) :
     \E g \in [oob -> Garbage] :
       LET i   == mlp_i
           vec == IF i = 0 THEN Filled(Size(model_path), ZeroWeights)
                  ELSE mlp_weight_vector
           wrt == IF i = 0 THEN Filled(Size(model_path), Filled(MLP_DATA_COUNT, 0))
                  ELSE mlp_written
       IN  /\ models' = WithSubModels(models, i, mlp_json[i].obj_num)
           /\ mlp_log' = mlp_log \cup CountErrors(i, mlp_json[i])
           /\ IF crash
              THEN /\ pc' = "crashed"
                   /\ mlp_weight_vector' = vec
                   /\ mlp_written' = wrt
                   /\ mlp_i' = i
              ELSE /\ mlp_weight_vector' =
                        [vec EXCEPT ![i] = [k \in DOMAIN raw |->
                                              IF k \in oob THEN g[k] ELSE raw[k]]]
                   /\ mlp_written' =
                        [wrt EXCEPT ![i] = [k \in DOMAIN raw |-> WriteCount(ws, k)]]
                   /\ mlp_i' = i + 1
                   /\ pc' = IF i + 1 < Size(model_path) THEN "mlp" ELSE "api_prepare"
  /\ UNCHANGED <<inputVars, sceneVars, laterVars>>

(***************************************************************************)
(* The Vulkan device and the framework (ApiVulkanSample).                  *)
(*                                                                         *)
(* A handle is a positive integer, VK_NULL_HANDLE is 0; device maps every  *)
(* live handle to the object it names.  vkCreate* adds a fresh handle,     *)
(* vkDestroy* removes it.                                                  *)
(***************************************************************************)
VK_NULL_HANDLE == 0

Create(dev, h, obj) == [k \in DOMAIN dev \cup {h} |-> IF k = h THEN obj ELSE dev[k]]

CreateMany(dev, h, n, obj) ==
  [k \in DOMAIN dev \cup h..(h + n - 1) |-> IF k \in h..(h + n - 1) THEN obj ELSE dev[k]]

Destroy(dev, hs) == [k \in DOMAIN dev \ hs |-> dev[k]]

\* The surface extents a window takes.
Extents == {[width |-> 2, height |-> 1], [width |-> 1, height |-> 2]}

NoExtent == [width |-> 0, height |-> 0]

\* A default-constructed FrameBufferAttachment.
NullAttachment ==
  [image |-> VK_NULL_HANDLE, memory |-> VK_NULL_HANDLE, view |-> VK_NULL_HANDLE,
   sampler |-> VK_NULL_HANDLE, format |-> "undefined", width |-> 0, height |-> 0]

NullFrameAttachment ==
  [feature_0 |-> NullAttachment, feature_1 |-> NullAttachment, feature_2 |-> NullAttachment]

Features == <<"feature_0", "feature_1", "feature_2">>

\* A command buffer nothing has been recorded into.
NotRecorded ==
  [recordings |-> 0, framebuffer |-> VK_NULL_HANDLE, renderArea |-> NoExtent,
   draws |-> EmptyArr, composition |-> << >>, ui_framebuffer |-> VK_NULL_HANDLE,
   commands |-> << >>, clear_values |-> << >>]

\* The state a rebuild works on, as one record, and its write-back.
GpuState ==
  [prepared |-> prepared, render_pass |-> render_pass, width |-> width, height |-> height,
   surface_extent |-> surface_extent, swapchain_buffers |-> swapchain_buffers,
   depth_stencil |-> depth_stencil, framebuffers |-> framebuffers,
   draw_cmd_buffers |-> draw_cmd_buffers, next_handle |-> next_handle,
   device |-> device, frameAttachments |-> frameAttachments,
   nerf_framebuffers |-> nerf_framebuffers,
   descriptor_set_baseline |-> descriptor_set_baseline,
   invalid_destroys |-> invalid_destroys]

SetGpu(g) ==
  /\ prepared' = g.prepared
  /\ render_pass' = g.render_pass
  /\ width' = g.width
  /\ height' = g.height
  /\ surface_extent' = g.surface_extent
  /\ swapchain_buffers' = g.swapchain_buffers
  /\ depth_stencil' = g.depth_stencil
  /\ framebuffers' = g.framebuffers
  /\ draw_cmd_buffers' = g.draw_cmd_buffers
  /\ next_handle' = g.next_handle
  /\ device' = g.device
  /\ frameAttachments' = g.frameAttachments
  /\ nerf_framebuffers' = g.nerf_framebuffers
  /\ descriptor_set_baseline' = g.descriptor_set_baseline
  /\ invalid_destroys' = g.invalid_destroys

\* The framework's swapchain image views, depth image and UI framebuffers
\* for extent e, created from handle g.next_handle on; the old ones, if
\* any, destroyed.
WithSwapchainImages(g, e, F) ==
  LET
      h == g.next_handle
      old == {g.swapchain_buffers[i].view : i \in DOMAIN g.swapchain_buffers}
               \cup {g.framebuffers[i] : i \in DOMAIN g.framebuffers}
               \cup ({g.depth_stencil.view} \ {VK_NULL_HANDLE})
      d0 == Destroy(g.device, old)
      d1 == CreateMany(d0, h, F, [kind |-> "swapchain_view", width |-> e.width, height |-> e.height])
      d2 == Create(d1, h + F, [kind |-> "depth_view", width |-> e.width, height |-> e.height])
      d3 == CreateMany(d2, h + F + 1, F, [kind |-> "ui_framebuffer", width |-> e.width, height |-> e.height])
  IN  [g EXCEPT !.surface_extent = e,
                !.width = e.width,
                !.height = e.height,
                !.swapchain_buffers = [i \in 0..(F - 1) |-> [view |-> h + i]],
                !.depth_stencil = [view |-> h + F],
                !.framebuffers = [i \in 0..(F - 1) |-> h + F + 1 + i],
                !.device = d3,
                !.next_handle = h + 2 * F + 1]

\* The same with as many images as the platform's swapchain has.
WithSwapchain(g, e) == WithSwapchainImages(g, e, build.frames)

\* ApiVulkanSample::setup_render_pass: the framework's render pass, the old
\* one, if any, destroyed; color_load_op is the load op of its colour
\* (swapchain) attachment.
SetupRenderPass(g, color_load_op) ==
  [g EXCEPT !.render_pass = g.next_handle,
            !.device = Create(Destroy(@, {g.render_pass} \ {VK_NULL_HANDLE}), g.next_handle,
                              [kind |-> "ui_render_pass", color_load_op |-> color_load_op]),
            !.next_handle = g.next_handle + 1]

\* ApiVulkanSample::update_render_pass_flags: the render pass recreated, its
\* colour attachment loaded if flags has ColorAttachmentLoad, else cleared.
UpdateRenderPassFlags(g, flags) ==
  SetupRenderPass(g, IF "ColorAttachmentLoad" \in flags THEN "LOAD" ELSE "CLEAR")

\* ApiVulkanSample::prepare: the surface, the swapchain and its views, the
\* depth image, the render pass, the UI framebuffers and the draw command
\* buffers.  It may fail (prepare then returns false).
ApiVulkanSamplePrepare ==
  /\ pc = "api_prepare"
  /\ \E ok \in BOOLEAN, e \in Extents :
       IF ok
       THEN /\ \E g \in {WithSwapchain(SetupRenderPass(GpuState, "CLEAR"), e)} :
                 SetGpu([g EXCEPT !.draw_cmd_buffers = Filled(build.frames, NotRecorded)])
            /\ pc' = "load_shaders"
       ELSE /\ pc' = "prepare_failed"
            /\ UNCHANGED gpuVars
  /\ UNCHANGED <<inputVars, sceneVars, mlpVars, topoVars, bufVars, runVars>>

(***************************************************************************)
(* load_shaders and the two render passes.                                 *)
(***************************************************************************)
FirstPassShaders(deferred, original) ==
  <<"nerf/raster.vert",
    IF deferred
    THEN (IF original THEN "nerf/raster.frag" ELSE "nerf/raster_morpheus.frag")
    ELSE (IF original THEN "nerf/merged.frag" ELSE "nerf/merged_morpheus.frag")>>

SecondPassShaders(deferred, original) ==
  IF deferred
  THEN <<"nerf/quad.vert", IF original THEN "nerf/mlp.frag" ELSE "nerf/mlp_morpheus.frag">>
  ELSE << >>

LoadShaders ==
  /\ pc = "load_shaders"
  /\ shader_stages_first_pass' = FirstPassShaders(use_deferred, using_original_nerf_models[0])
  /\ shader_stages_second_pass' = SecondPassShaders(use_deferred, using_original_nerf_models[0])
  /\ pc' = "render_pass"
  /\ UNCHANGED <<inputVars, sceneVars, mlpVars, gpuVars, bufVars, runVars,
                 render_pass_nerf, descriptor_set_first_pass_layout,
                 pipeline_first_pass_layout, descriptor_set_layout_baseline,
                 pipeline_layout_baseline, descriptor_pool, pipeline_baseline>>

\* A sub-pass description: the attachment indices it references (0-based).
Subpass(color, depth, input) == [color |-> color, depth |-> depth, input |-> input]

\* update_render_pass_nerf_forward: depth and swapchain colour, one sub-pass.
RenderPassNerfForward(depth_format) ==
  [kind |-> "render_pass",
   attachments |-> <<depth_format, "swapchain_format">>,
   subpasses |-> <<Subpass(<<1>>, <<0>>, << >>)>>,
   dependencies |-> << >>]

\* A deferred pass collapsed into one sub-pass with no input attachments.
RenderPassNerfBaselineOnePass(depth_format) ==
  [kind |-> "render_pass",
   attachments |-> <<"feature_map_format", "feature_map_format", "R16G16B16A16_SFLOAT",
                     depth_format, "swapchain_format">>,
   subpasses |-> <<Subpass(<<0, 1, 2, 4>>, <<3>>, << >>)>>,
   dependencies |-> << >>]

\* VK_SUBPASS_EXTERNAL is ~0U; the model keeps it as the signed value of the
\* same 32 bits.
VK_SUBPASS_EXTERNAL == 0 - 1

\* A VkSubpassDependency; sub-passes are numbered from 0.
Dependency(src, dst, srcStageMask, dstStageMask, srcAccessMask, dstAccessMask, flags) ==
  [srcSubpass |-> src, dstSubpass |-> dst,
   srcStageMask |-> srcStageMask, dstStageMask |-> dstStageMask,
   srcAccessMask |-> srcAccessMask, dstAccessMask |-> dstAccessMask,
   dependencyFlags |-> flags]

\* A deferred pass that declares only the two external dependencies.
BaselineDependenciesExternalOnly ==
  <<Dependency(VK_SUBPASS_EXTERNAL, 0, {"BOTTOM_OF_PIPE"},
               {"COLOR_ATTACHMENT_OUTPUT", "EARLY_FRAGMENT_TESTS"}, {},
               {"COLOR_ATTACHMENT_WRITE", "DEPTH_STENCIL_ATTACHMENT_WRITE"}, {"BY_REGION"}),
    Dependency(1, VK_SUBPASS_EXTERNAL, {"COLOR_ATTACHMENT_OUTPUT"}, {"BOTTOM_OF_PIPE"},
               {"COLOR_ATTACHMENT_WRITE"}, {}, {"BY_REGION"})>>

\* The three dependencies of update_render_pass_nerf_baseline.
BaselineDependencies ==
  <<Dependency(VK_SUBPASS_EXTERNAL, 0, {"BOTTOM_OF_PIPE"},
               {"COLOR_ATTACHMENT_OUTPUT", "EARLY_FRAGMENT_TESTS"}, {},
               {"COLOR_ATTACHMENT_WRITE", "DEPTH_STENCIL_ATTACHMENT_WRITE"}, {"BY_REGION"}),
    Dependency(0, 1, {"COLOR_ATTACHMENT_OUTPUT"}, {"FRAGMENT_SHADER"},
               {"COLOR_ATTACHMENT_WRITE"}, {"INPUT_ATTACHMENT_READ"}, {"BY_REGION"}),
    Dependency(1, VK_SUBPASS_EXTERNAL, {"COLOR_ATTACHMENT_OUTPUT"}, {"BOTTOM_OF_PIPE"},
               {"COLOR_ATTACHMENT_WRITE"}, {}, {"BY_REGION"})>>

\* update_render_pass_nerf_baseline: three feature attachments, depth and
\* swapchain colour; sub-pass 0 writes the features, sub-pass 1 reads them
\* as input attachments and writes the swapchain colour.
RenderPassNerfBaseline(depth_format) ==
  [kind |-> "render_pass",
   attachments |-> <<"feature_map_format", "feature_map_format", "R16G16B16A16_SFLOAT",
                     depth_format, "swapchain_format">>,
   subpasses |-> <<Subpass(<<0, 1, 2>>, <<3>>, << >>), Subpass(<<4>>, << >>, <<0, 1, 2>>)>>,
   dependencies |-> BaselineDependencies]

\* prepare, lines 429-436.
UpdateRenderPassNerf ==
  /\ pc = "render_pass"
  /\ render_pass_nerf' = next_handle
  /\ device' = Create(device, next_handle,
                      IF use_deferred THEN RenderPassNerfBaseline("depth_format")
                      ELSE RenderPassNerfForward("depth_format"))
  /\ next_handle' = next_handle + 1
  /\ pc' = "framebuffer"
  /\ UNCHANGED <<inputVars, sceneVars, mlpVars, bufVars, runVars,
                 prepared, invalid_destroys,
                 render_pass, width, height, surface_extent, swapchain_buffers,
                 depth_stencil, framebuffers, draw_cmd_buffers, frameAttachments,
                 nerf_framebuffers, descriptor_set_baseline,
                 shader_stages_first_pass, shader_stages_second_pass,
                 descriptor_set_first_pass_layout, pipeline_first_pass_layout,
                 descriptor_set_layout_baseline, pipeline_layout_baseline,
                 descriptor_pool, pipeline_baseline>>

(***************************************************************************)
(* Frame attachments and the NeRF framebuffers.                            *)
(***************************************************************************)
\* A setup_attachment that keeps an attachment that already has an image.
SetupAttachmentOnce(g, i, f, format) ==
  IF g.frameAttachments[i][f].image # VK_NULL_HANDLE THEN g
  ELSE [g EXCEPT !.frameAttachments[i][f] =
                    [image |-> g.next_handle, memory |-> g.next_handle + 1,
                     view |-> g.next_handle + 2, sampler |-> g.next_handle + 3,
                     format |-> format, width |-> g.surface_extent.width,
                     height |-> g.surface_extent.height],
                 !.device = CreateMany(@, g.next_handle, 4,
                                       [kind |-> "attachment",
                                        width |-> g.surface_extent.width,
                                        height |-> g.surface_extent.height]),
                 !.next_handle = g.next_handle + 4]

\* A setup_attachment that creates the new image, memory, view and sampler
\* without destroying the old ones.
SetupAttachmentLeak(g, i, f, format) ==
  [g EXCEPT !.frameAttachments[i][f] =
               [image |-> g.next_handle, memory |-> g.next_handle + 1,
                view |-> g.next_handle + 2, sampler |-> g.next_handle + 3,
                format |-> format, width |-> g.surface_extent.width,
                height |-> g.surface_extent.height],
            !.device = CreateMany(@, g.next_handle, 4,
                                  [kind |-> "attachment",
                                   width |-> g.surface_extent.width,
                                   height |-> g.surface_extent.height]),
            !.next_handle = g.next_handle + 4]

\* setup_attachment on frameAttachments[i].f: the old image, view, memory
\* and sampler destroyed if there is an image, then new ones created with
\* the current surface extent.
SetupAttachment(g, i, f, format) ==
  LET att == g.frameAttachments[i][f]
      h == g.next_handle
      old == IF att.image # VK_NULL_HANDLE
             THEN {att.sampler, att.view, att.image, att.memory} ELSE {}
      obj == [kind |-> "attachment", width |-> g.surface_extent.width,
              height |-> g.surface_extent.height]
  IN  [g EXCEPT !.frameAttachments[i][f] =
                   [image |-> h, memory |-> h + 1, view |-> h + 2, sampler |-> h + 3,
                    format |-> format, width |-> g.surface_extent.width,
                    height |-> g.surface_extent.height],
                !.device = CreateMany(Destroy(@, old), h, 4, obj),
                !.invalid_destroys = @ \cup (old \ DOMAIN g.device),
                !.next_handle = h + 4]

\* The loop over frameAttachments: three setup_attachment calls per frame.
RECURSIVE SetupAttachments(_, _)
SetupAttachments(g, i) ==
  IF i >= Size(g.frameAttachments) THEN g
  ELSE SetupAttachments(
         SetupAttachment(
           SetupAttachment(
             SetupAttachment(g, i, "feature_0", "feature_map_format"),
             i, "feature_1", "feature_map_format"),
           i, "feature_2", "R16G16B16A16_SFLOAT"),
         i + 1)

\* The image views of nerf_framebuffers[i].
FramebufferViews(g, i) ==
  IF use_deferred
  THEN <<g.frameAttachments[i].feature_0.view, g.frameAttachments[i].feature_1.view,
         g.frameAttachments[i].feature_2.view, g.depth_stencil.view,
         g.swapchain_buffers[i].view>>
  ELSE <<g.depth_stencil.view, g.swapchain_buffers[i].view>>

\* The vkCreateFramebuffer loop.
RECURSIVE CreateFramebuffers(_, _)
CreateFramebuffers(g, i) ==
  IF i >= Size(g.nerf_framebuffers) THEN g
  ELSE CreateFramebuffers(
         [g EXCEPT !.nerf_framebuffers[i] = g.next_handle,
                   !.device = Create(@, g.next_handle,
                                     [kind |-> "framebuffer",
                                      renderPass |-> render_pass_nerf,
                                      views |-> FramebufferViews(g, i),
                                      width |-> g.surface_extent.width,
                                      height |-> g.surface_extent.height]),
                   !.next_handle = g.next_handle + 1],
         i + 1)

SetupNerfFramebufferBaseline(g) ==
  LET g1 == IF use_deferred
            THEN SetupAttachments(
                   [g EXCEPT !.frameAttachments =
                               Resized(@, Size(g.swapchain_buffers), NullFrameAttachment)], 0)
            ELSE g
      old == {g1.nerf_framebuffers[i] : i \in DOMAIN g1.nerf_framebuffers}
      g2 == [g1 EXCEPT !.device = Destroy(@, old \ {VK_NULL_HANDLE}),
                       !.nerf_framebuffers =
                          Resized(@, Size(g1.swapchain_buffers), VK_NULL_HANDLE)]
  IN  CreateFramebuffers(g2, 0)

\* prepare, lines 438-441: the framebuffers, then the UI render pass made
\* to load the colour the NeRF pass wrote.
SetupNerfFramebuffer ==
  /\ pc = "framebuffer"
  /\ \E g \in {UpdateRenderPassFlags(SetupNerfFramebufferBaseline(GpuState),
                                      {"ColorAttachmentLoad"})} : SetGpu(g)
  /\ pc' = "load_models"
  /\ UNCHANGED <<inputVars, sceneVars, mlpVars, topoVars, bufVars, runVars>>

\* update_descriptor_sets_baseline: bindings 0..2 of descriptor_set_baseline[i]
\* rewritten with the views of frameAttachments[i].
RECURSIVE UpdateDescriptorSetsBaselineFrom(_, _)
UpdateDescriptorSetsBaselineFrom(g, i) ==
  IF i >= Size(g.nerf_framebuffers) THEN g
  ELSE UpdateDescriptorSetsBaselineFrom(
         [g EXCEPT !.device[g.descriptor_set_baseline[i]].bindings =
                      <<g.frameAttachments[i].feature_0.view,
                        g.frameAttachments[i].feature_1.view,
                        g.frameAttachments[i].feature_2.view, @[4]>>],
         i + 1)

\* An update_descriptor_sets_baseline that writes nothing.
UpdateDescriptorSetsBaselineSkip(g) == g

UpdateDescriptorSetsBaseline(g) == UpdateDescriptorSetsBaselineFrom(g, 0)

(***************************************************************************)
(* Model loading, uniforms and the instance buffer.                        *)
(***************************************************************************)
\* An event of an upload: what the host does, and the destinations (device
\* objects) it is done for.
Ev(op, res) == [op |-> op, res |-> res]

\* vkb::Device::flush_command_buffer: the command buffer ended and submitted,
\* and the host waiting on the fence of the submission.
FlushCommandBuffer(res) == <<Ev("submit", res), Ev("wait", res)>>

\* create_texture_helper for texture t: the staging buffer created and
\* filled, the image, its memory and view created, then a one-shot command
\* buffer with the transition to TRANSFER_DST, the copy and the transition
\* to SHADER_READ_ONLY, flushed; stage_buffer is released on return.
CreateTextureHelperUpload(t) ==
  <<Ev("staging_alloc", {t}), Ev("staging_fill", {t}), Ev("dest_alloc", {t}),
    Ev("barrier", {t}), Ev("copy", {t}), Ev("barrier", {t})>>
  \o FlushCommandBuffer({t})
  \o <<Ev("staging_release", {t})>>

\* A create_static_object_buffers that returns, releasing the staging
\* buffers, without waiting for the fence.
CreateStaticObjectBuffersUploadNoWait(v, i) ==
  <<Ev("staging_alloc", {v}), Ev("staging_alloc", {i}),
    Ev("staging_fill", {v}), Ev("staging_fill", {i}),
    Ev("dest_alloc", {v}), Ev("copy", {v}), Ev("barrier", {v}),
    Ev("dest_alloc", {i}), Ev("copy", {i}), Ev("barrier", {i}),
    Ev("submit", {v, i}),
    Ev("staging_release", {i}), Ev("staging_release", {v})>>

\* create_static_object_buffers for vertex buffer v and index buffer i: both
\* staging buffers created and filled, then one command buffer with, per
\* buffer, the output buffer created, the copy and the barrier; submitted
\* with a fence, the fence pool waited on; the staging buffers (locals) are
\* released on return, in reverse order of declaration.
CreateStaticObjectBuffersUpload(v, i) ==
  <<Ev("staging_alloc", {v}), Ev("staging_alloc", {i}),
    Ev("staging_fill", {v}), Ev("staging_fill", {i}),
    Ev("dest_alloc", {v}), Ev("copy", {v}), Ev("barrier", {v}),
    Ev("dest_alloc", {i}), Ev("copy", {i}), Ev("barrier", {i}),
    Ev("submit", {v, i}), Ev("wait", {v, i}),
    Ev("staging_release", {i}), Ev("staging_release", {v})>>

\* The upload of prepare_instance_data for instance buffer b.
InstanceBufferUpload(b) ==
  <<Ev("staging_alloc", {b}), Ev("staging_fill", {b}),
    Ev("dest_alloc", {b}), Ev("copy", {b}), Ev("barrier", {b}),
    Ev("submit", {b}), Ev("wait", {b}),
    Ev("staging_release", {b})>>

\* create_texture_helper: magFilter and minFilter of the sampler.
SamplerFilter(original) ==
  IF original THEN "VK_FILTER_NEAREST" ELSE "VK_FILTER_LINEAR"

\* The number of triangles of the glTF file of (model_index,
\* sub_model_index, sub_model): the assets are fixed inputs.
MeshTriangles(model_index, sub_model_index, sub_model) ==
  1 + ((model_index + sub_model_index + sub_model) % 2)

\* load_scene: model.indices grows by the triangles of each of the 8
\* (original models) or 1 files of the sub-model.
RECURSIVE LoadScene(_, _, _, _)
LoadScene(model_index, sub_model_index, sub_model, total_sub_sub_model) ==
  IF sub_model >= total_sub_sub_model THEN 0
  ELSE MeshTriangles(model_index, sub_model_index, sub_model)
         + LoadScene(model_index, sub_model_index, sub_model + 1, total_sub_sub_model)

\* A load of entry st.models_entry that uploads the static buffers before
\* it creates the textures.
LoadEntryBuffersFirst(st, model_index, sub_model_index) ==
  LET e == st.models_entry
      h == st.next_handle
  IN  [st EXCEPT !.models[e].loads = Append(@, <<model_index, sub_model_index>>),
                 !.models[e].indices =
                    @ + LoadScene(model_index, sub_model_index, 0,
                                  IF using_original_nerf_models[model_index] THEN 8 ELSE 1),
                 !.models[e].vertex_buffer = h,
                 !.models[e].index_buffer = h + 1,
                 !.models[e].texture_input_0 = h + 2,
                 !.models[e].texture_input_1 = h + 3,
                 !.device = CreateMany(CreateMany(@, h + 2, 2,
                                         [kind |-> "texture", model |-> model_index,
                                          filter |-> SamplerFilter(using_original_nerf_models[0])]),
                                       h, 2, [kind |-> "buffer", updates |-> 1]),
                 !.upload_log = @ \o CreateStaticObjectBuffersUpload(h, h + 1)
                                  \o CreateTextureHelperUpload(h + 2)
                                  \o CreateTextureHelperUpload(h + 3),
                 !.next_handle = h + 4,
                 !.models_entry = e + 1]

\* load_scene, create_texture and create_static_object_buffers for entry
\* st.models_entry, called with (model_index, sub_model_index).
LoadEntry(st, model_index, sub_model_index) ==
  LET e == st.models_entry
      h == st.next_handle
  IN  [st EXCEPT !.models[e].loads = Append(@, <<model_index, sub_model_index>>),
                 !.models[e].indices =
                    @ + LoadScene(model_index, sub_model_index, 0,
                                  IF using_original_nerf_models[model_index] THEN 8 ELSE 1),
                 !.models[e].texture_input_0 = h,
                 !.models[e].texture_input_1 = h + 1,
                 !.models[e].vertex_buffer = h + 2,
                 !.models[e].index_buffer = h + 3,
                 !.device = CreateMany(CreateMany(@, h, 2, [kind |-> "texture", model |-> model_index,
                                                   filter |-> SamplerFilter(using_original_nerf_models[0])]),
                                       h + 2, 2, [kind |-> "buffer", updates |-> 1]),
                 !.upload_log = @ \o CreateTextureHelperUpload(h)
                                  \o CreateTextureHelperUpload(h + 1)
                                  \o CreateStaticObjectBuffersUpload(h + 2, h + 3),
                 !.next_handle = h + 4,
                 !.models_entry = e + 1]

\* A load loop that loads only the first sub-model of each model.
LoadSubModelsFirstOnly(st, model_index, sub_model_index, num_sub_model) ==
  LoadEntry(st, model_index, 0)

RECURSIVE LoadSubModels(_, _, _, _)
LoadSubModels(st, model_index, sub_model_index, num_sub_model) ==
  IF sub_model_index >= num_sub_model THEN st
  ELSE LoadSubModels(LoadEntry(st, model_index, sub_model_index),
                     model_index, sub_model_index + 1, num_sub_model)

RECURSIVE LoadLoop(_, _)
LoadLoop(st, model_index) ==
  IF model_index >= Size(model_path) THEN st
  ELSE LoadLoop(LoadSubModels(st, model_index, 0, st.models[st.models_entry].sub_model_num),
                model_index + 1)

\* prepare, lines 450-463.
LoadModels ==
  /\ pc = "load_models"
  /\ \E st \in {LoadLoop([models |-> models, device |-> device,
                          next_handle |-> next_handle, upload_log |-> upload_log,
                          models_entry |-> 0], 0)} :
       /\ models' = st.models
       /\ device' = st.device
       /\ next_handle' = st.next_handle
       /\ upload_log' = st.upload_log
  /\ pc' = "create_uniforms"
  /\ UNCHANGED <<inputVars, sceneVars, mlpWeightVars, topoVars, runVars,
                 uniform_buffers, weights_buffers, instance_buffer, instance_data,
                 prepared, invalid_destroys,
                 render_pass, width, height, surface_extent, swapchain_buffers,
                 depth_stencil, framebuffers, draw_cmd_buffers, frameAttachments,
                 nerf_framebuffers, descriptor_set_baseline>>

\* The uniform and weights buffers the recorded command buffer cb reads:
\* those bound by the descriptor sets it binds.
BuffersRead(cb) ==
  UNION {Range(device[cb.commands[p].args[2]].bindings) :
           p \in {x \in DOMAIN cb.commands : cb.commands[x].cmd = "BindDescriptorSets"}}
    \cap (Range(uniform_buffers) \cup Range(weights_buffers))

\* vkQueueSubmit of cb with no fence: the device starts executing cb; q is
\* what it is reading already.
QueueSubmit(q, cb) == q \cup BuffersRead(cb)

\* A submit_frame that presents and returns at once.
SubmitFrameNoWait(q) == q

\* ApiVulkanSample::submit_frame: presents the image and blocks until the
\* queue is idle.
SubmitFrame(q) == {}

\* The buffers update_uniform_buffers writes while the device reads them.
HostWriteOverlaps(q, ubs, wbs) == q \cap (Range(ubs) \cup Range(wbs))

\* update_uniform_buffers: every uniform buffer and weights buffer written
\* in place; ubs and wbs are the two buffer arrays.
UpdateUniformBuffers(dev, ubs, wbs) ==
  [h \in DOMAIN dev |->
     IF h \in Range(ubs) \cup Range(wbs)
     THEN [dev[h] EXCEPT !.updates = @ + 1]
     ELSE dev[h]]

\* The number of entries of model_translation.
ModelTranslationSize == 4

\* The translation of model i: entry i of model_translation in combo mode
\* (an indeterminate matrix when the table has no entry i), the identity
\* otherwise.
ModelTranslation(combo, i) ==
  IF ~combo THEN [kind |-> "identity", entry |-> 0]
  ELSE IF i < ModelTranslationSize THEN [kind |-> "model_translation", entry |-> i]
  ELSE [kind |-> "indeterminate", entry |-> i]

\* The container reads of the loop of update_uniform_buffers, each with
\* the index read and the size of the container.
UpdateUniformBuffersAccesses(n, combo, ubs, wbs, mlp) ==
  {[container |-> "model_translation", index |-> i, size |-> ModelTranslationSize] :
     i \in {j \in 0..(n - 1) : combo}}
  \cup {[container |-> "uniform_buffers", index |-> i, size |-> Size(ubs)] : i \in 0..(n - 1)}
  \cup {[container |-> "weights_buffers", index |-> i, size |-> Size(wbs)] : i \in 0..(n - 1)}
  \cup {[container |-> "mlp_weight_vector", index |-> i, size |-> Size(mlp)] : i \in 0..(n - 1)}

\* Those of them made at an index not below the size.
UpdateUniformBuffersErrors(n, combo, ubs, wbs, mlp) ==
  {a \in UpdateUniformBuffersAccesses(n, combo, ubs, wbs, mlp) : ~(a.index < a.size)}

\* Where the sample is after update_uniform_buffers made the accesses
\* errs and would go on at next: an access out of bounds is undefined.
AfterUpdate(errs, next) == IF errs = {} THEN {next} ELSE {"crashed", "undefined"}

\* Every entry made to reference the buffers of model 0.
BufferRefsFirstModel(ms) ==
  [k \in DOMAIN ms |-> [ms[k] EXCEPT !.uniform_buffer_ref = 0, !.weights_buffer_ref = 0]]

\* The references of the entries: &uniform_buffers[model.model_index] and
\* &weights_buffers[model.model_index], kept as the index.
BufferRefs(ms) ==
  [k \in DOMAIN ms |-> [ms[k] EXCEPT !.uniform_buffer_ref = ms[k].model_index,
                                     !.weights_buffer_ref = ms[k].model_index]]

\* create_uniforms.
CreateUniforms ==
  /\ pc = "create_uniforms"
  /\ LET n == Size(model_path)
         h == next_handle
         ubs == [i \in 0..(n - 1) |-> h + 2 * i]
         wbs == [i \in 0..(n - 1) |-> h + 2 * i + 1]
     IN  /\ uniform_buffers' = ubs
         /\ weights_buffers' = wbs
         /\ models' = BufferRefs(models)
         /\ device' = UpdateUniformBuffers(
                        CreateMany(device, h, 2 * n, [kind |-> "buffer", updates |-> 0]),
                        ubs, wbs)
         /\ next_handle' = h + 2 * n
         /\ write_overlaps' = write_overlaps \cup HostWriteOverlaps(in_flight, ubs, wbs)
         /\ \E errs \in {UpdateUniformBuffersErrors(n, combo_mode, ubs, wbs, mlp_weight_vector)} :
              /\ index_errors' = index_errors \cup errs
              /\ pc' \in AfterUpdate(errs, "instance_data")
  /\ UNCHANGED <<inputVars, sceneVars, mlpWeightVars, topoVars,
                 frames_submitted, last_submit, resizes, in_flight,
                 instance_buffer, instance_data, upload_log,
                 prepared, invalid_destroys,
                 render_pass, width, height, surface_extent, swapchain_buffers,
                 depth_stencil, framebuffers, draw_cmd_buffers, frameAttachments,
                 nerf_framebuffers, descriptor_set_baseline>>

\* prepare_instance_data.
PrepareInstanceData ==
  /\ pc = "instance_data"
  /\ instance_data' = InstanceData(instancing_info)
  /\ instance_buffer' = next_handle
  /\ device' = Create(device, next_handle, [kind |-> "buffer", updates |-> 1])
  /\ upload_log' = upload_log \o InstanceBufferUpload(next_handle)
  /\ next_handle' = next_handle + 1
  /\ pc' = "layout_first_pass"
  /\ UNCHANGED <<inputVars, sceneVars, mlpVars, topoVars, runVars,
                 uniform_buffers, weights_buffers,
                 prepared, invalid_destroys,
                 render_pass, width, height, surface_extent, swapchain_buffers,
                 depth_stencil, framebuffers, draw_cmd_buffers, frameAttachments,
                 nerf_framebuffers, descriptor_set_baseline>>

(***************************************************************************)
(* Layouts, descriptor pool and sets, pipelines.                           *)
(***************************************************************************)
\* The bindings of the first-pass set layout.
FirstPassBindings(deferred) ==
  <<"COMBINED_IMAGE_SAMPLER", "COMBINED_IMAGE_SAMPLER", "UNIFORM_BUFFER">>
    \o (IF deferred THEN << >> ELSE <<"UNIFORM_BUFFER">>)

\* The bindings of the second-pass set layout.
BaselineBindings ==
  <<"INPUT_ATTACHMENT", "INPUT_ATTACHMENT", "INPUT_ATTACHMENT", "UNIFORM_BUFFER">>

\* The part of the state the creation steps below leave alone.
createUnchanged ==
  <<inputVars, sceneVars, mlpWeightVars, bufVars, runVars,
    prepared, invalid_destroys,
                 render_pass, width, height, surface_extent, swapchain_buffers, depth_stencil,
    framebuffers, draw_cmd_buffers, frameAttachments, nerf_framebuffers,
    shader_stages_first_pass, shader_stages_second_pass, render_pass_nerf>>

\* create_pipeline_layout_fist_pass.
CreatePipelineLayoutFirstPass ==
  /\ pc = "layout_first_pass"
  /\ descriptor_set_first_pass_layout' = next_handle
  /\ pipeline_first_pass_layout' = next_handle + 1
  /\ device' = Create(Create(device, next_handle,
                             [kind |-> "set_layout", bindings |-> FirstPassBindings(use_deferred)]),
                      next_handle + 1,
                      [kind |-> "pipeline_layout", set_layout |-> next_handle])
  /\ next_handle' = next_handle + 2
  /\ pc' = IF use_deferred THEN "layout_baseline" ELSE "descriptor_pool"
  /\ UNCHANGED <<createUnchanged, models, descriptor_set_layout_baseline,
                 pipeline_layout_baseline, descriptor_pool, descriptor_set_baseline,
                 pipeline_baseline>>

\* create_pipeline_layout_baseline (deferred only).
CreatePipelineLayoutBaseline ==
  /\ pc = "layout_baseline"
  /\ descriptor_set_layout_baseline' = next_handle
  /\ pipeline_layout_baseline' = next_handle + 1
  /\ device' = Create(Create(device, next_handle,
                             [kind |-> "set_layout", bindings |-> BaselineBindings]),
                      next_handle + 1,
                      [kind |-> "pipeline_layout", set_layout |-> next_handle])
  /\ next_handle' = next_handle + 2
  /\ pc' = "descriptor_pool"
  /\ UNCHANGED <<createUnchanged, models, descriptor_set_first_pass_layout,
                 pipeline_first_pass_layout, descriptor_pool, descriptor_set_baseline,
                 pipeline_baseline>>

\* A pool that has room for the first-pass sets of a deferred sample only.
PoolMaxSetsFirstPass(deferred, n_models, n_framebuffers) ==
  IF deferred THEN n_models ELSE n_models * n_framebuffers

\* pool_sizes of the descriptor pool: one entry per VkDescriptorPoolSize.
PoolSizes(deferred, n_models, n_framebuffers) ==
  IF deferred
  THEN <<[type |-> "COMBINED_IMAGE_SAMPLER", descriptorCount |-> 2 * n_models],
         [type |-> "UNIFORM_BUFFER", descriptorCount |-> 1 * n_models],
         [type |-> "INPUT_ATTACHMENT", descriptorCount |-> 3 * n_framebuffers],
         [type |-> "UNIFORM_BUFFER", descriptorCount |-> 1 * n_framebuffers]>>
  ELSE <<[type |-> "COMBINED_IMAGE_SAMPLER", descriptorCount |-> 2 * n_models * n_framebuffers],
         [type |-> "UNIFORM_BUFFER", descriptorCount |-> 1 * n_models * n_framebuffers],
         [type |-> "UNIFORM_BUFFER", descriptorCount |-> 1 * n_models * n_framebuffers]>>

\* maxSets of the descriptor pool.
PoolMaxSets(deferred, n_models, n_framebuffers) ==
  IF deferred THEN n_models + n_framebuffers ELSE n_models * n_framebuffers

\* create_descriptor_pool.
CreateDescriptorPool ==
  /\ pc = "descriptor_pool"
  /\ descriptor_pool' = next_handle
  /\ device' = Create(device, next_handle,
                      [kind |-> "descriptor_pool",
                       maxSets |-> PoolMaxSets(use_deferred, Size(models), Size(framebuffers)),
                       poolSizes |-> PoolSizes(use_deferred, Size(models), Size(framebuffers)),
                       allocated |-> 0])
  /\ next_handle' = next_handle + 1
  /\ pc' = "descriptor_sets_first_pass"
  /\ UNCHANGED <<createUnchanged, models, descriptor_set_first_pass_layout,
                 pipeline_first_pass_layout, descriptor_set_layout_baseline,
                 pipeline_layout_baseline, descriptor_set_baseline, pipeline_baseline>>

\* numDescriptorPerModel
NumDescriptorPerModel == IF use_deferred THEN 1 ELSE Size(nerf_framebuffers)

\* A first-pass descriptor set that never binds the weights.
FirstPassSetNoWeights(model) ==
  [kind |-> "descriptor_set", layout |-> descriptor_set_first_pass_layout,
   bindings |-> <<model.texture_input_0, model.texture_input_1,
                  uniform_buffers[model.uniform_buffer_ref]>>]

\* The first-pass descriptor set of a model: two feature textures, the
\* camera uniform, and in forward mode the model's weights.
FirstPassSet(model) ==
  [kind |-> "descriptor_set", layout |-> descriptor_set_first_pass_layout,
   bindings |-> <<model.texture_input_0, model.texture_input_1,
                  uniform_buffers[model.uniform_buffer_ref]>>
                \o (IF use_deferred THEN << >>
                    ELSE <<weights_buffers[model.weights_buffer_ref]>>)]

\* create_descriptor_sets_first_pass for every model (prepare, lines 474-477).
CreateDescriptorSetsFirstPass ==
  /\ pc = "descriptor_sets_first_pass"
  /\ LET n == NumDescriptorPerModel
         h == next_handle
         total == n * Size(models)
     IN  /\ models' = [k \in DOMAIN models |->
                         [models[k] EXCEPT !.descriptor_set_first_pass =
                                              [i \in 0..(n - 1) |-> h + k * n + i]]]
         /\ device' =
              [x \in DOMAIN device \cup h..(h + total - 1) |->
                 IF x \in h..(h + total - 1) THEN FirstPassSet(models[(x - h) \div n])
                 ELSE IF x = descriptor_pool
                 THEN [device[x] EXCEPT !.allocated = @ + total]
                 ELSE device[x]]
         /\ next_handle' = h + total
  /\ pc' = IF use_deferred THEN "descriptor_sets_baseline" ELSE "pipelines"
  /\ UNCHANGED <<createUnchanged, descriptor_set_first_pass_layout,
                 pipeline_first_pass_layout, descriptor_set_layout_baseline,
                 pipeline_layout_baseline, descriptor_pool, descriptor_set_baseline,
                 pipeline_baseline>>

\* The composition descriptor set of framebuffer i: the three feature views
\* as input attachments and the weights of models[0].
BaselineSet(i) ==
  [kind |-> "descriptor_set", layout |-> descriptor_set_layout_baseline,
   bindings |-> <<frameAttachments[i].feature_0.view, frameAttachments[i].feature_1.view,
                  frameAttachments[i].feature_2.view,
                  weights_buffers[models[0].weights_buffer_ref]>>]

\* create_descriptor_sets_baseline (deferred only).
CreateDescriptorSetsBaseline ==
  /\ pc = "descriptor_sets_baseline"
  /\ LET n == Size(nerf_framebuffers)
         h == next_handle
     IN  /\ descriptor_set_baseline' = [i \in 0..(n - 1) |-> h + i]
         /\ device' =
              [x \in DOMAIN device \cup h..(h + n - 1) |->
                 IF x \in h..(h + n - 1) THEN BaselineSet(x - h)
                 ELSE IF x = descriptor_pool
                 THEN [device[x] EXCEPT !.allocated = @ + n]
                 ELSE device[x]]
         /\ next_handle' = h + n
  /\ pc' = "pipelines"
  /\ UNCHANGED <<createUnchanged, models, descriptor_set_first_pass_layout,
                 pipeline_first_pass_layout, descriptor_set_layout_baseline,
                 pipeline_layout_baseline, descriptor_pool, pipeline_baseline>>

\* prepare_pipelines: one first-pass pipeline per model, and in deferred
\* mode the composition pipeline of sub-pass 1.
PreparePipelines ==
  /\ pc = "pipelines"
  /\ LET h == next_handle
         M == Size(models)
         first == [kind |-> "pipeline", layout |-> pipeline_first_pass_layout,
                   renderPass |-> render_pass_nerf, subpass |-> 0,
                   stages |-> shader_stages_first_pass,
                   blend_attachments |-> IF use_deferred THEN 3 ELSE 1]
         second == [kind |-> "pipeline", layout |-> pipeline_layout_baseline,
                    renderPass |-> render_pass_nerf, subpass |-> 1,
                    stages |-> shader_stages_second_pass,
                    blend_attachments |-> 1]
     IN  /\ models' = [k \in DOMAIN models |->
                         [models[k] EXCEPT !.pipeline_first_pass = h + k]]
         /\ IF use_deferred
            THEN /\ pipeline_baseline' = h + M
                 /\ device' = Create(CreateMany(device, h, M, first), h + M, second)
                 /\ next_handle' = h + M + 1
            ELSE /\ pipeline_baseline' = pipeline_baseline
                 /\ device' = CreateMany(device, h, M, first)
                 /\ next_handle' = h + M
  /\ pc' = "build_command_buffers"
  /\ UNCHANGED <<createUnchanged, descriptor_set_first_pass_layout,
                 pipeline_first_pass_layout, descriptor_set_layout_baseline,
                 pipeline_layout_baseline, descriptor_pool, descriptor_set_baseline>>

(***************************************************************************)
(* Command buffers.                                                        *)
(***************************************************************************)
\* A recorded command: its name and its arguments (handles and counts).
Cmd(name, args) == [cmd |-> name, args |-> args]

\* A recording that draws a single instance of each model.
DrawModelOneInstance(i, model) ==
  <<Cmd("BindPipeline", <<model.pipeline_first_pass>>),
    Cmd("BindDescriptorSets",
        <<pipeline_first_pass_layout,
          model.descriptor_set_first_pass[IF use_deferred THEN 0 ELSE i]>>),
    Cmd("BindVertexBuffers", <<0, model.vertex_buffer>>),
    Cmd("BindVertexBuffers", <<1, instance_buffer>>),
    Cmd("BindIndexBuffer", <<model.index_buffer>>),
    Cmd("DrawIndexed", <<model.indices * 3, 1>>)>>

\* The commands recorded for one model into command buffer i.
DrawModel(i, model) ==
  <<Cmd("BindPipeline", <<model.pipeline_first_pass>>),
    Cmd("BindDescriptorSets",
        <<pipeline_first_pass_layout,
          model.descriptor_set_first_pass[IF use_deferred THEN 0 ELSE i]>>),
    Cmd("BindVertexBuffers", <<0, model.vertex_buffer>>),
    Cmd("BindVertexBuffers", <<1, instance_buffer>>),
    Cmd("BindIndexBuffer", <<model.index_buffer>>),
    Cmd("DrawIndexed",
        <<model.indices * 3,
          instancing_info.dim[1] * instancing_info.dim[2] * instancing_info.dim[3]>>)>>

\* for (auto &model : models), from entry k on.
RECURSIVE DrawModels(_, _)
DrawModels(i, k) ==
  IF k >= Size(models) THEN << >> ELSE DrawModel(i, models[k]) \o DrawModels(i, k + 1)

\* The NeRF pass of command buffer i.
NerfPassCommands(g, i) ==
  <<Cmd("BeginRenderPass", <<render_pass_nerf, g.nerf_framebuffers[i]>>),
    Cmd("SetViewport", <<g.width, g.height>>),
    Cmd("SetScissor", <<g.width, g.height>>)>>
  \o DrawModels(i, 0)
  \o (IF use_deferred
      THEN <<Cmd("NextSubpass", << >>),
             Cmd("BindPipeline", <<pipeline_baseline>>),
             Cmd("BindDescriptorSets", <<pipeline_layout_baseline, g.descriptor_set_baseline[i]>>),
             Cmd("Draw", <<3, 1>>)>>
      ELSE << >>)
  \o <<Cmd("EndRenderPass", << >>)>>

\* The UI pass of command buffer i.
UiPassCommands(g, i) ==
  <<Cmd("BeginRenderPass", <<g.render_pass, g.framebuffers[i]>>),
    Cmd("DrawUi", << >>),
    Cmd("EndRenderPass", << >>)>>

\* A recording with the UI pass first.
CommandsUiFirst(g, i) == UiPassCommands(g, i) \o NerfPassCommands(g, i)

\* Everything recorded into command buffer i, in order.
Commands(g, i) == NerfPassCommands(g, i) \o UiPassCommands(g, i)

\* An access container[index] to a container of size elements.
Access(container, index, size) == [container |-> container, index |-> index, size |-> size]

\* The accesses with an index that is not below the size of the container.
OutOfBounds(A) == {a \in A : ~(0 <= a.index /\ a.index < a.size)}

\* The container accesses of update_descriptor_sets_baseline.
UpdateDescriptorSetsAccesses(g) ==
  UNION {{Access("descriptor_set_baseline", i, Size(g.descriptor_set_baseline)),
          Access("frameAttachments", i, Size(g.frameAttachments))} :
           i \in 0..(Size(g.nerf_framebuffers) - 1)}

\* The container accesses of the vkCreateFramebuffer loop of
\* setup_nerf_framebuffer_baseline, g being the state it leaves.
FramebufferAccesses(g) ==
  UNION {{Access("swapchain_buffers", i, Size(g.swapchain_buffers))}
           \cup (IF use_deferred
                 THEN {Access("frameAttachments", i, Size(g.frameAttachments))}
                 ELSE {}) :
           i \in 0..(Size(g.nerf_framebuffers) - 1)}

\* The container accesses of the recording loop, which runs over
\* draw_cmd_buffers.
RecordAccesses(g) ==
  UNION {{Access("nerf_framebuffers", i, Size(g.nerf_framebuffers))}
           \cup {Access("descriptor_set_first_pass", IF use_deferred THEN 0 ELSE i,
                        Size(models[k].descriptor_set_first_pass)) : k \in DOMAIN models}
           \cup (IF use_deferred
                 THEN {Access("descriptor_set_baseline", i, Size(g.descriptor_set_baseline))}
                 ELSE {}) :
           i \in DOMAIN g.draw_cmd_buffers}

\* The accesses of build_command_buffers_baseline that are out of bounds:
\* those of the set-up, if prepared is false, and those of the recording.
BuildIndexErrors(g) ==
  LET s == IF ~g.prepared THEN SetupNerfFramebufferBaseline(g) ELSE g
  IN  OutOfBounds((IF ~g.prepared THEN FramebufferAccesses(s) ELSE {})
                  \cup (IF ~g.prepared /\ use_deferred
                        THEN UpdateDescriptorSetsAccesses(s) ELSE {})
                  \cup RecordAccesses(s))

\* Clear values that put the depth value first in both topologies.
ClearValuesDepthFirst == <<"depthStencil", "color">>

\* clear_values of the NeRF pass: which member of the VkClearValue union is
\* set at each index.
ClearValues ==
  IF use_deferred
  THEN <<"color", "color", "color", "depthStencil", "color">>
  ELSE <<"depthStencil", "color">>

\* The recording loop of build_command_buffers_baseline: command buffer i
\* begins the NeRF pass on nerf_framebuffers[i], draws every model, in
\* deferred mode draws the composition triangle in sub-pass 1, then the UI
\* pass on framebuffers[i].
RecordCommandBuffers(g) ==
  [g EXCEPT !.draw_cmd_buffers =
     [i \in DOMAIN g.draw_cmd_buffers |->
        [recordings |-> g.draw_cmd_buffers[i].recordings + 1,
         framebuffer |-> g.nerf_framebuffers[i],
         renderArea |-> [width |-> g.width, height |-> g.height],
         draws |-> [k \in DOMAIN models |->
                      [pipeline |-> models[k].pipeline_first_pass,
                       descriptor_set |->
                         models[k].descriptor_set_first_pass[IF use_deferred THEN 0 ELSE i],
                       instances |-> instancing_info.dim[1] * instancing_info.dim[2]
                                       * instancing_info.dim[3]]],
         composition |-> IF use_deferred
                         THEN <<[pipeline |-> pipeline_baseline,
                                 descriptor_set |-> g.descriptor_set_baseline[i]]>>
                         ELSE << >>,
         ui_framebuffer |-> g.framebuffers[i],
         commands |-> Commands(g, i),
         clear_values |-> ClearValues]]]

\* build_command_buffers_baseline: while prepared is false the attachments
\* and framebuffers are set up again and the composition sets updated.
BuildCommandBuffersBaseline(g) ==
  LET g1 == IF ~g.prepared
            THEN LET s == SetupNerfFramebufferBaseline(g)
                 IN  IF use_deferred THEN UpdateDescriptorSetsBaseline(s) ELSE s
            ELSE g
  IN  RecordCommandBuffers(g1)

BuildCommandBuffers(g) == BuildCommandBuffersBaseline(g)

\* prepare, lines 485-489: build_command_buffers(), then prepared = true.
FinishPrepare ==
  /\ pc = "build_command_buffers"
  /\ \E g \in {BuildCommandBuffers(GpuState)} : SetGpu([g EXCEPT !.prepared = TRUE])
  /\ index_errors' = index_errors \cup BuildIndexErrors(GpuState)
  /\ pc' = "running"
  /\ UNCHANGED <<inputVars, sceneVars, mlpVars, topoVars, bufVars,
                 frames_submitted, last_submit, resizes, in_flight, write_overlaps>>

(***************************************************************************)
(* The running sample: render and resize.                                  *)
(***************************************************************************)
\* How often each uniform buffer has been written.
UniformVersions(dev, ubs) == [i \in DOMAIN ubs |-> dev[ubs[i]].updates]

\* A render call that writes the uniform buffers before it submits.
UpdateThenDraw(dev, ubs, wbs) ==
  [seen |-> UniformVersions(UpdateUniformBuffers(dev, ubs, wbs), ubs),
   device |-> UpdateUniformBuffers(dev, ubs, wbs)]

\* The body of render past its guard: draw() submits the frame, which sees
\* the uniform buffers as they are, then update_uniform_buffers() writes
\* them.
DrawThenUpdate(dev, ubs, wbs) ==
  [seen |-> UniformVersions(dev, ubs),
   device |-> UpdateUniformBuffers(dev, ubs, wbs)]

\* render: draw() submits draw_cmd_buffers[current_buffer], then
\* update_uniform_buffers().  current_buffer is the image the framework
\* acquired.
Render ==
  /\ pc = "running"
  /\ prepared
  /\ frames_submitted < MaxSubmits
  /\ \E current_buffer \in DOMAIN draw_cmd_buffers :
     \E q \in {SubmitFrame(QueueSubmit(in_flight, draw_cmd_buffers[current_buffer]))} :
       /\ last_submit' = <<draw_cmd_buffers[current_buffer],
                           DrawThenUpdate(device, uniform_buffers, weights_buffers).seen>>
       /\ in_flight' = q
       /\ write_overlaps' = write_overlaps
                              \cup HostWriteOverlaps(q, uniform_buffers, weights_buffers)
  /\ frames_submitted' = frames_submitted + 1
  /\ device' = DrawThenUpdate(device, uniform_buffers, weights_buffers).device
  /\ \E errs \in {UpdateUniformBuffersErrors(Size(model_path), combo_mode, uniform_buffers,
                                              weights_buffers, mlp_weight_vector)} :
       /\ index_errors' = index_errors \cup errs
       /\ pc' \in AfterUpdate(errs, pc)
  /\ UNCHANGED <<inputVars, sceneVars, mlpVars, topoVars, bufVars, resizes,
                 prepared, invalid_destroys,
                 render_pass, width, height, surface_extent, swapchain_buffers,
                 depth_stencil, framebuffers, draw_cmd_buffers, next_handle,
                 frameAttachments, nerf_framebuffers, descriptor_set_baseline>>

\* ApiVulkanSample::rebuild_command_buffers: the command pool reset, then
\* the sample's build_command_buffers.
RebuildCommandBuffers(g) == BuildCommandBuffers(g)

\* ApiVulkanSample::resize to extent e when the recreated swapchain has F
\* images: draw_cmd_buffers keeps its size, the command pool is reset.
ApiVulkanSampleResizeImages(g, e, F) ==
  [RebuildCommandBuffers(WithSwapchainImages([g EXCEPT !.prepared = FALSE], e, F))
     EXCEPT !.prepared = TRUE]

\* Nerf::resize when the recreated swapchain has F images.
NerfResizeImages(g, e, F) == RebuildCommandBuffers(ApiVulkanSampleResizeImages(g, e, F))

\* The accesses of the two rebuilds of Nerf::resize that are out of bounds.
ResizeIndexErrors(g, e, F) ==
  LET g0 == WithSwapchainImages([g EXCEPT !.prepared = FALSE], e, F)
      e0 == BuildIndexErrors(g0)
  IN  IF e0 # {} THEN e0
      ELSE BuildIndexErrors([BuildCommandBuffers(g0) EXCEPT !.prepared = TRUE])

\* ApiVulkanSample::resize to extent e: prepared is false while the
\* swapchain views, the depth image and the UI framebuffers are recreated
\* and the command buffers rebuilt, then true again.
ApiVulkanSampleResize(g, e) ==
  [RebuildCommandBuffers(WithSwapchain([g EXCEPT !.prepared = FALSE], e))
     EXCEPT !.prepared = TRUE]

\* Nerf::resize
NerfResize(g, e) == RebuildCommandBuffers(ApiVulkanSampleResize(g, e))

\* A resize event: the surface takes another extent.
Resize ==
  /\ pc = "running"
  /\ prepared
  /\ resizes < MaxResizes
  /\ \E e \in Extents \ {surface_extent} :
       /\ \E g \in {NerfResize(GpuState, e)} : SetGpu(g)
       /\ index_errors' = index_errors
                            \cup ResizeIndexErrors(GpuState, e, Size(swapchain_buffers))
  /\ resizes' = resizes + 1
  /\ UNCHANGED <<inputVars, pc, sceneVars, mlpVars, topoVars, bufVars,
                 frames_submitted, last_submit, in_flight, write_overlaps>>

\* A resize event after which the recreated swapchain has another number of
\* images.  An access out of bounds is undefined behaviour: the process
\* crashes, or goes on in a state that is not followed further.
ResizeImages ==
  /\ pc = "running"
  /\ prepared
  /\ resizes < MaxResizes
  /\ \E e \in Extents \ {surface_extent} :
     \E F \in (1..MaxFrames) \ {Size(swapchain_buffers)} :
     \E errs \in {ResizeIndexErrors(GpuState, e, F)} :
       IF errs = {}
       THEN /\ \E g \in {NerfResizeImages(GpuState, e, F)} : SetGpu(g)
            /\ pc' = pc
            /\ index_errors' = index_errors
       ELSE /\ \E outcome \in {"crashed", "undefined"} : pc' = outcome
            /\ index_errors' = index_errors \cup errs
            /\ UNCHANGED gpuVars
  /\ resizes' = resizes + 1
  /\ UNCHANGED <<inputVars, sceneVars, mlpVars, topoVars, bufVars,
                 frames_submitted, last_submit, in_flight, write_overlaps>>

(***************************************************************************)
(* Shutdown: Nerf::~Nerf.                                                  *)
(***************************************************************************)
\* The sampler, view, image and memory of a FrameBufferAttachment.
AttachmentResources(a) == {a.sampler, a.view, a.image, a.memory}

\* vkDestroy*/vkFreeMemory/reset on the handles hs: a null handle is
\* ignored, a handle that is not live is an invalid destroy.
DestroyChecked(g, hs) ==
  [g EXCEPT !.device = Destroy(@, hs),
            !.invalid_destroys = @ \cup ((hs \ {VK_NULL_HANDLE}) \ DOMAIN g.device)]

\* What the destructor releases, in program order: the render pass, the
\* framebuffers, per Model entry its buffers, textures and pipeline, the
\* weights and uniform buffers, the first-pass layouts, the composition
\* pipeline and layouts if there is a composition pipeline, and per frame
\* the three frame attachments.
DestructorSteps ==
  <<{render_pass_nerf}, Range(nerf_framebuffers)>>
  \o [k \in 1..Size(models) |->
        {models[k - 1].vertex_buffer, models[k - 1].index_buffer,
         models[k - 1].texture_input_0, models[k - 1].texture_input_1,
         models[k - 1].pipeline_first_pass}]
  \o <<Range(weights_buffers), Range(uniform_buffers),
       {pipeline_first_pass_layout}, {descriptor_set_first_pass_layout},
       IF pipeline_baseline # VK_NULL_HANDLE
       THEN {pipeline_baseline, pipeline_layout_baseline, descriptor_set_layout_baseline}
       ELSE {}>>
  \o [j \in 1..(3 * Size(frameAttachments)) |->
        AttachmentResources(frameAttachments[(j - 1) \div 3][Features[((j - 1) % 3) + 1]])]

RECURSIVE DestroyAll(_, _, _)
DestroyAll(g, steps, k) ==
  IF k > Len(steps) THEN g ELSE DestroyAll(DestroyChecked(g, steps[k]), steps, k + 1)

\* The sample is closed while it runs.
Shutdown ==
  /\ pc = "running"
  /\ \E g \in {DestroyAll(GpuState, DestructorSteps, 1)} :
       /\ device' = g.device
       /\ invalid_destroys' = g.invalid_destroys
  /\ pc' = "destroyed"
  /\ UNCHANGED <<inputVars, sceneVars, mlpVars, topoVars, bufVars, runVars,
                 prepared, render_pass, width, height, surface_extent, swapchain_buffers,
                 depth_stencil, framebuffers, draw_cmd_buffers, next_handle,
                 frameAttachments, nerf_framebuffers, descriptor_set_baseline>>

(***************************************************************************)
(* Inputs.                                                                 *)
(***************************************************************************)
\* The shipped single-model scene: 1 x 1 x 1 lattice, interval 1.5.
SingleScene ==
  [combo |-> "absent", models |-> 0, original |-> <<FALSE>>,
   camera |-> "ok", dim_shape |-> "ok", interval_shape |-> "ok",
   dim |-> <<1, 1, 1>>, interval |-> <<F_1_5, F_1_5, F_1_5>>, deferred |-> FALSE]

\* The state after construction, for build b, scene j and descriptions mj.
InitWith(b, j, mj) ==
  /\ build = b
  /\ json = j
  /\ mlp_json = mj
  /\ pc = "read_json_map"
  /\ combo_mode = FALSE
  /\ model_path = EmptyArr
  /\ using_original_nerf_models = EmptyArr
  /\ use_deferred = FALSE
  /\ camera_pos = "default"
  /\ instancing_info = NoInstancing
  /\ mlp_weight_vector = EmptyArr
  /\ mlp_written = EmptyArr
  /\ mlp_log = {}
  /\ mlp_i = 0
  /\ models = EmptyArr
  /\ instance_data = EmptyArr
  /\ upload_log = << >>
  /\ prepared = FALSE
  /\ invalid_destroys = {}
  /\ render_pass = VK_NULL_HANDLE
  /\ width = 0
  /\ height = 0
  /\ surface_extent = NoExtent
  /\ swapchain_buffers = EmptyArr
  /\ depth_stencil = [view |-> VK_NULL_HANDLE]
  /\ framebuffers = EmptyArr
  /\ draw_cmd_buffers = EmptyArr
  /\ next_handle = 1
  /\ device = EmptyArr
  /\ shader_stages_first_pass = << >>
  /\ shader_stages_second_pass = << >>
  /\ render_pass_nerf = VK_NULL_HANDLE
  /\ frameAttachments = EmptyArr
  /\ nerf_framebuffers = EmptyArr
  /\ uniform_buffers = EmptyArr
  /\ weights_buffers = EmptyArr
  /\ instance_buffer = VK_NULL_HANDLE
  /\ descriptor_set_first_pass_layout = VK_NULL_HANDLE
  /\ pipeline_first_pass_layout = VK_NULL_HANDLE
  /\ descriptor_set_layout_baseline = VK_NULL_HANDLE
  /\ pipeline_layout_baseline = VK_NULL_HANDLE
  /\ descriptor_pool = VK_NULL_HANDLE
  /\ descriptor_set_baseline = EmptyArr
  /\ pipeline_baseline = VK_NULL_HANDLE
  /\ frames_submitted = 0
  /\ last_submit = << >>
  /\ resizes = 0
  /\ in_flight = {}
  /\ write_overlaps = {}
  /\ index_errors = {}

(***************************************************************************)
(* The packer on every MLP description whose arrays are at most one        *)
(* element off the expected counts, for every layer-2 group count.         *)
(***************************************************************************)
InitPack ==
  \E gw \in 1..MaxGroups, gb \in 1..MaxGroups, obj_num \in 1..MaxObjNum :
    \E lens \in NearLens(gw, gb) :
      InitWith([gw |-> gw, gb |-> gb, fma |-> FALSE, frames |-> 1], SingleScene,
               [m \in {0} |-> Description(0, obj_num, lens)])

NextPack == ReadJsonMap \/ InitializeMlpUniformBuffers

SpecPack == InitPack /\ [][NextPack]_vars

(***************************************************************************)
(* Scene resolution and the lattice on every instancing setting with       *)
(* dimensions in -1..MaxDim and intervals negative, zero, 0.1 or 1.5 per   *)
(* axis, and on every way the camera, dim and interval fields can be       *)
(* given; prepare runs up to prepare_instance_data.                        *)
(***************************************************************************)
DimValues == (0 - 1)..MaxDim

IntervalValues == {0 - F_1_5, 0, F_0_1, F_1_5}

\* The well-formed description of model m for the one-group build.
NominalDescription(m, obj_num) == Description(m, obj_num, ExpectedLens(1, 1))

InitGrid ==
  \E fma \in BOOLEAN :
    \E j \in {[SingleScene EXCEPT !.dim = <<d1, d2, d3>>, !.interval = <<i1, i2, i3>>] :
                d1 \in DimValues, d2 \in DimValues, d3 \in DimValues,
                i1 \in IntervalValues, i2 \in IntervalValues, i3 \in IntervalValues}
         \cup {[SingleScene EXCEPT !.camera = c, !.dim_shape = ds, !.interval_shape = is,
                                   !.dim = <<2, 1, 2>>] :
                c \in Shapes, ds \in Shapes, is \in Shapes} :
      InitWith([gw |-> 1, gb |-> 1, fma |-> fma, frames |-> 1], j,
               [m \in {0} |-> NominalDescription(0, 1)])

NextGrid ==
  \/ ReadJsonMap
  \/ InitializeMlpUniformBuffers
  \/ ApiVulkanSamplePrepare
  \/ LoadShaders
  \/ UpdateRenderPassNerf
  \/ SetupNerfFramebuffer
  \/ LoadModels
  \/ CreateUniforms
  \/ PrepareInstanceData

SpecGrid == InitGrid /\ [][NextGrid]_vars

(***************************************************************************)
(* The whole life cycle: both topologies, 1..MaxFrames swapchain images,   *)
(* single-model and combo scenes with well-formed MLP descriptions, then   *)
(* frames and resize events in any order.                                  *)
(***************************************************************************)
\* The lattices of the scenes: the shipped 1 x 1 x 1 and a 2 x 1 x 2 one.
SceneDims == {<<1, 1, 1>>, <<2, 1, 2>>}

Init ==
  \E deferred \in BOOLEAN, frames \in 1..MaxFrames, n \in 1..MaxModels,
     original \in BOOLEAN, obj_num \in 1..MaxObjNum, dim \in SceneDims :
    \E combo \in (IF n = 1 THEN {"absent", "false"} ELSE {"true"}) :
      InitWith([gw |-> 1, gb |-> 1, fma |-> FALSE, frames |-> frames],
               [SingleScene EXCEPT !.combo = combo, !.models = n,
                                   !.original = [k \in 1..n |-> original],
                                   !.dim = dim, !.deferred = deferred],
               [m \in 0..(n - 1) |-> NominalDescription(m, obj_num)])

Next ==
  \/ ReadJsonMap
  \/ InitializeMlpUniformBuffers
  \/ ApiVulkanSamplePrepare
  \/ LoadShaders
  \/ UpdateRenderPassNerf
  \/ SetupNerfFramebuffer
  \/ LoadModels
  \/ CreateUniforms
  \/ PrepareInstanceData
  \/ CreatePipelineLayoutFirstPass
  \/ CreatePipelineLayoutBaseline
  \/ CreateDescriptorPool
  \/ CreateDescriptorSetsFirstPass
  \/ CreateDescriptorSetsBaseline
  \/ PreparePipelines
  \/ FinishPrepare
  \/ Render
  \/ Resize

Spec == Init /\ [][Next]_vars

(***************************************************************************)
(* The same scenes, prepared up to and including the load-time uploads.    *)
(***************************************************************************)
NextLoad ==
  \/ ReadJsonMap
  \/ InitializeMlpUniformBuffers
  \/ ApiVulkanSamplePrepare
  \/ LoadShaders
  \/ UpdateRenderPassNerf
  \/ SetupNerfFramebuffer
  \/ LoadModels
  \/ CreateUniforms
  \/ PrepareInstanceData

SpecLoad == Init /\ [][NextLoad]_vars

(***************************************************************************)
(* Combo scenes whose models each carry their own original flag, prepared  *)
(* up to and including the pipelines.                                      *)
(***************************************************************************)
InitCombo ==
  \E deferred \in BOOLEAN, frames \in 1..MaxFrames, n \in 2..MaxModels,
     obj_num \in 1..MaxObjNum, dim \in SceneDims :
    \E original \in [1..n -> BOOLEAN] :
      InitWith([gw |-> 1, gb |-> 1, fma |-> FALSE, frames |-> frames],
               [SingleScene EXCEPT !.combo = "true", !.models = n,
                                   !.original = original,
                                   !.dim = dim, !.deferred = deferred],
               [m \in 0..(n - 1) |-> NominalDescription(m, obj_num)])

NextCombo ==
  \/ ReadJsonMap
  \/ InitializeMlpUniformBuffers
  \/ ApiVulkanSamplePrepare
  \/ LoadShaders
  \/ UpdateRenderPassNerf
  \/ SetupNerfFramebuffer
  \/ LoadModels
  \/ CreateUniforms
  \/ PrepareInstanceData
  \/ CreatePipelineLayoutFirstPass
  \/ CreatePipelineLayoutBaseline
  \/ CreateDescriptorPool
  \/ CreateDescriptorSetsFirstPass
  \/ CreateDescriptorSetsBaseline
  \/ PreparePipelines

SpecCombo == InitCombo /\ [][NextCombo]_vars

(***************************************************************************)
(* The whole life cycle with its end: the sample of Spec, closed at any    *)
(* time while it runs.                                                     *)
(***************************************************************************)
NextLife ==
  \/ ReadJsonMap
  \/ InitializeMlpUniformBuffers
  \/ ApiVulkanSamplePrepare
  \/ LoadShaders
  \/ UpdateRenderPassNerf
  \/ SetupNerfFramebuffer
  \/ LoadModels
  \/ CreateUniforms
  \/ PrepareInstanceData
  \/ CreatePipelineLayoutFirstPass
  \/ CreatePipelineLayoutBaseline
  \/ CreateDescriptorPool
  \/ CreateDescriptorSetsFirstPass
  \/ CreateDescriptorSetsBaseline
  \/ PreparePipelines
  \/ FinishPrepare
  \/ Render
  \/ Resize
  \/ Shutdown

SpecLife == Init /\ [][NextLife]_vars

(***************************************************************************)
(* The life cycle of Spec on a platform whose swapchain may come back from *)
(* a resize with another number of images.                                 *)
(***************************************************************************)
NextImages ==
  \/ ReadJsonMap
  \/ InitializeMlpUniformBuffers
  \/ ApiVulkanSamplePrepare
  \/ LoadShaders
  \/ UpdateRenderPassNerf
  \/ SetupNerfFramebuffer
  \/ LoadModels
  \/ CreateUniforms
  \/ PrepareInstanceData
  \/ CreatePipelineLayoutFirstPass
  \/ CreatePipelineLayoutBaseline
  \/ CreateDescriptorPool
  \/ CreateDescriptorSetsFirstPass
  \/ CreateDescriptorSetsBaseline
  \/ PreparePipelines
  \/ FinishPrepare
  \/ Render
  \/ Resize
  \/ ResizeImages

SpecImages == Init /\ [][NextImages]_vars

(***************************************************************************)
(* Combo scenes of the asset map with up to MaxComboModels models, through *)
(* the life cycle of Spec.                                                 *)
(***************************************************************************)
InitScenes ==
  \E deferred \in BOOLEAN, n \in 1..MaxComboModels :
    InitWith([gw |-> 1, gb |-> 1, fma |-> FALSE, frames |-> 1],
             [SingleScene EXCEPT !.combo = "true", !.models = n,
                                 !.original = [k \in 1..n |-> FALSE],
                                 !.deferred = deferred],
             [m \in 0..(n - 1) |-> NominalDescription(m, 1)])

NextScenes ==
  \/ ReadJsonMap
  \/ InitializeMlpUniformBuffers
  \/ ApiVulkanSamplePrepare
  \/ LoadShaders
  \/ UpdateRenderPassNerf
  \/ SetupNerfFramebuffer
  \/ LoadModels
  \/ CreateUniforms
  \/ PrepareInstanceData
  \/ CreatePipelineLayoutFirstPass
  \/ CreatePipelineLayoutBaseline
  \/ CreateDescriptorPool
  \/ CreateDescriptorSetsFirstPass
  \/ CreateDescriptorSetsBaseline
  \/ PreparePipelines
  \/ FinishPrepare
  \/ Render
  \/ Resize

SpecScenes == InitScenes /\ [][NextScenes]_vars





(***************************************************************************)
(* Reading the packed buffer back.                                         *)
(***************************************************************************)
\* The top-level models whose buffer initialize_mlp_uniform_buffers has packed.
PackedModels == {m \in DOMAIN mlp_weight_vector : m < mlp_i}

\* The flattened source array a of model m.
Source(m, a) ==
  CASE a = 0 -> Flatten(mlp_json[m].weights_0)
    [] a = 1 -> Flatten(mlp_json[m].weights_1)
    [] a = 2 -> Flatten(mlp_json[m].weights_2)
    [] a = 3 -> mlp_json[m].bias_0
    [] a = 4 -> mlp_json[m].bias_1
    [] a = 5 -> mlp_json[m].bias_2

\* Offset and element count of segment a of the buffer.
SegOff(a) == <<OFF_W0, OFF_W1, OFF_W2, OFF_B0, OFF_B1, OFF_B2>>[a + 1]
SegCount(a) ==
  <<WEIGHTS_0_COUNT, WEIGHTS_1_COUNT, WEIGHTS_2_COUNT,
    BIAS_0_COUNT, BIAS_1_COUNT, BIAS_2_COUNT>>[a + 1]

\* Segment a of model m's packed buffer, as a sequence.
Segment(m, a) == [k \in 1..SegCount(a) |-> mlp_weight_vector[m][SegOff(a) + k - 1]]

\* The padding rule: position k (1-indexed) of a padded segment is padding
\* when k is a multiple of 4; NonPadRank(k) counts the non-padding
\* positions up to and including k.
IsPad(k) == k % 4 = 0
NonPadRank(k) == k - (k \div 4)

\* The inverse of the padding rule: the segment without its every 4th element.
RECURSIVE Unpad(_)
Unpad(seg) ==
  IF seg = << >> THEN << >>
  ELSE IF IsPad(Len(seg)) THEN Unpad(SubSeq(seg, 1, Len(seg) - 1))
       ELSE Append(Unpad(SubSeq(seg, 1, Len(seg) - 1)), seg[Len(seg)])

\* ceil(L / 3)
CeilThird(L) == (L + 2) \div 3

\* The source array a of model m has the count the build expects.
ExpectedCount(m, a) == <<m, a>> \notin CountErrors(m, mlp_json[m])

(***************************************************************************)
(* C1.  Layer-2 weight packing: for a flattened layer-2 weight source of   *)
(* length L (the count the build expects, 3 per group of 4), the packed    *)
(* layer-2 segment has length L + ceil(L/3), every 4th element             *)
(* (1-indexed positions 4, 8, ...) is 0, and the other positions hold the  *)
(* source elements consecutively in their original order.  The position    *)
(* facts hold for a source of any length as far as it has elements.        *)
(***************************************************************************)
C1_Layer2WeightPacking ==
  \A m \in PackedModels :
    LET src == Source(m, 2)
        seg == Segment(m, 2)
    IN  /\ \A k \in 1..Len(seg) :
             /\ IsPad(k) => seg[k] = 0
             /\ ~IsPad(k) /\ NonPadRank(k) <= Len(src) => seg[k] = src[NonPadRank(k)]
        /\ ExpectedCount(m, 2) =>
             /\ Len(seg) = Len(src) + CeilThird(Len(src))
             /\ \A j \in 1..Len(src) :
                  \E k \in 1..Len(seg) : ~IsPad(k) /\ NonPadRank(k) = j /\ seg[k] = src[j]

\* The spec's example, two groups: [1,2,3,4,5,6] packs to [1,2,3,0,4,5,6,0].
C1_Witness ==
  \E m \in PackedModels :
    /\ build.gw = 2
    /\ Len(Source(m, 2)) = 6
    /\ Segment(m, 2) = <<Tag(m, 2, 0), Tag(m, 2, 1), Tag(m, 2, 2), 0,
                         Tag(m, 2, 3), Tag(m, 2, 4), Tag(m, 2, 5), 0>>

TagArray(m, v) ==
  IF v > 1000 * (m + 1) /\ v < 1000 * (m + 2) THEN (v - 1000 * (m + 1)) \div 100 ELSE 0 - 1

C3_BufferLayout ==
  /\ \A m \in DOMAIN mlp_weight_vector : Size(mlp_weight_vector[m]) = MLP_DATA_COUNT
  /\ \A m \in PackedModels :
       /\ \A k \in 0..(MLP_DATA_COUNT - 1) : mlp_written[m][k] = 1
       /\ \A a \in {0, 1, 3, 4} :
            /\ \A k \in 1..SegCount(a) :
                 k <= Len(Source(m, a)) => Segment(m, a)[k] = Source(m, a)[k]
            /\ ExpectedCount(m, a) => Segment(m, a) = Source(m, a)
       /\ \A a \in {2, 5} : \A k \in 1..SegCount(a) :
            IF IsPad(k) THEN Segment(m, a)[k] = 0
            ELSE Segment(m, a)[k] \in Garbage \/ TagArray(m, Segment(m, a)[k]) = a
       /\ \A a \in 0..5 : \A k \in 1..SegCount(a) :
            Segment(m, a)[k] \in Garbage \/ TagArray(m, Segment(m, a)[k]) = a

\* A packed buffer of a well-formed description, with two layer-2 groups.
C3_Witness ==
  \E m \in PackedModels :
    /\ CountErrors(m, mlp_json[m]) = {}
    /\ build.gw = 2
    /\ Segment(m, 0) = Source(m, 0)
    /\ Segment(m, 4) = Source(m, 4)
    /\ mlp_weight_vector[m][OFF_B0 - 1] = 0
    /\ mlp_weight_vector[m][OFF_B0] = Tag(m, 3, 0)

LatticePrepared == instance_buffer # VK_NULL_HANDLE

LatticeCoords(ii) ==
  {<<x, y, z>> : x \in 0..(ii.dim[1] - 1), y \in 0..(ii.dim[2] - 1), z \in 0..(ii.dim[3] - 1)}

\* The linear instance index of a lattice coordinate: x outer, z inner.
LinearIndex(ii, c) == (c[1] * ii.dim[2] + c[2]) * ii.dim[3] + c[3]

\* The opposite lattice coordinate.
Mirror(ii, c) == <<ii.dim[1] - 1 - c[1], ii.dim[2] - 1 - c[2], ii.dim[3] - 1 - c[3]>>

\* No product of axis k is rounded: interval * j for every j < dim, and the
\* corner.
ExactAxis(ii, k) ==
  /\ \A j \in 0..(ii.dim[k] - 1) : FMulInt(ii.interval[k], j) = ii.interval[k] * j
  /\ CornerPos(ii)[k] = 0 - (ii.interval[k] \div 2) * (ii.dim[k] - 1)

(***************************************************************************)
(* C5.  For all valid instancing dimensions (nx, ny, nz) and intervals,    *)
(* prepare_instance_data produces exactly nx * ny * nz offsets, the offset *)
(* stored at linear index (x * ny + y) * nz + z is corner + (x * dx,       *)
(* y * dy, z * dz) with corner = -interval * 0.5 * (dim - 1), as float     *)
(* arithmetic evaluates it, and each lattice coordinate appears exactly    *)
(* once.                                                                   *)
(***************************************************************************)
C5_LatticeIndex ==
  LatticePrepared =>
    LET ii == instancing_info
    IN  /\ Size(instance_data) = ii.dim[1] * ii.dim[2] * ii.dim[3]
        /\ \A c \in LatticeCoords(ii) :
             /\ LinearIndex(ii, c) \in DOMAIN instance_data
             /\ instance_data[LinearIndex(ii, c)] = PosOffset(ii, c[1], c[2], c[3])
        /\ \A k \in DOMAIN instance_data :
             Cardinality({c \in LatticeCoords(ii) : LinearIndex(ii, c) = k}) = 1
        /\ \A k1, k2 \in DOMAIN instance_data :
             k1 # k2 => instance_data[k1] # instance_data[k2]

\* A 2 x 3 x 4 lattice of interval 0.1: index 23 is the far corner, index 4
\* is coordinate (0, 1, 0).
C5_Witness ==
  /\ LatticePrepared
  /\ instancing_info.dim = <<2, 3, 4>>
  /\ instancing_info.interval = <<F_0_1, F_0_1, F_0_1>>
  /\ Size(instance_data) = 24
  /\ instance_data[4] = PosOffset(instancing_info, 0, 1, 0)
  /\ instance_data[23] = PosOffset(instancing_info, 1, 2, 3)

(***************************************************************************)
(* C6.  The lattice is symmetric about the origin up to float rounding:    *)
(* for every valid dimension/interval triple and every lattice coordinate, *)
(* offset(x,y,z) + offset(nx-1-x, ny-1-y, nz-1-z) is zero on every axis    *)
(* whose products interval * j and corner are exact in binary32, and       *)
(* within about 2^-22 of the lattice's extent on the other axes.           *)
(***************************************************************************)
C6_LatticeSymmetry ==
  LatticePrepared =>
    LET ii == instancing_info
    IN  \A c \in LatticeCoords(ii) : \A k \in 1..3 :
          LET s == instance_data[LinearIndex(ii, c)][k]
                     + instance_data[LinearIndex(ii, Mirror(ii, c))][k]
          IN  /\ Abs(s) <= (ii.interval[k] \div Pow2(22)) * ii.dim[k]
              /\ ExactAxis(ii, k) => s = 0

\* Interval 0.1 on 4 points: the two inner offsets are -0.05000000447 and
\* 0.04999999702, not opposite; interval 1.5 on the z axis is exact.
C6_Witness ==
  /\ LatticePrepared
  /\ instancing_info.dim = <<4, 1, 2>>
  /\ instancing_info.interval = <<F_0_1, F_1_5, F_1_5>>
  /\ instance_data[LinearIndex(instancing_info, <<1, 0, 0>>)][1] = 0 - 13421774
  /\ instance_data[LinearIndex(instancing_info, <<2, 0, 1>>)][1] = 13421772
  /\ instance_data[LinearIndex(instancing_info, <<1, 0, 0>>)][3]
       = 0 - instance_data[LinearIndex(instancing_info, <<2, 0, 1>>)][3]

\* C6 as stated: offset(x,y,z) = -offset(nx-1-x, ny-1-y, nz-1-z) exactly,
\* for every valid dimension/interval triple.
C6_ExactSymmetry ==
  LatticePrepared =>
    LET ii == instancing_info
    IN  \A c \in LatticeCoords(ii) : \A k \in 1..3 :
          instance_data[LinearIndex(ii, c)][k]
            = 0 - instance_data[LinearIndex(ii, Mirror(ii, c))][k]

(***************************************************************************)
(* C7.  For every instancing configuration in which a dimension component  *)
(* is <= 0 or an interval component is <= 0, read_json_map terminates the  *)
(* process before MLP packing starts and before prepare creates any GPU    *)
(* resource; so in every state after resolution all dimension components   *)
(* are >= 1 and all interval components are > 0.                           *)
(***************************************************************************)
\* The process has terminated inside read_json_map.
Terminated == pc \in {"exited", "aborted"}

\* Nothing has been packed and no GPU resource created.
NothingStarted ==
  /\ mlp_i = 0
  /\ mlp_weight_vector = EmptyArr
  /\ models = EmptyArr
  /\ DOMAIN device = {}
  /\ next_handle = 1

C7_NonPositiveIsFatal ==
  /\ (/\ pc # "read_json_map"
      /\ json.dim_shape = "ok"
      /\ json.interval_shape = "ok"
      /\ NonPositive(json.dim, json.interval))
       => Terminated /\ NothingStarted
  /\ Terminated => NothingStarted
  /\ (pc # "read_json_map" /\ ~Terminated) =>
       /\ \A k \in 1..3 : instancing_info.dim[k] >= 1
       /\ \A k \in 1..3 : instancing_info.interval[k] > 0

\* Valid dimensions with one zero interval: terminated, nothing created.
C7_Witness ==
  /\ pc = "exited"
  /\ json.dim = <<2, 1, 3>>
  /\ json.interval = <<F_1_5, 0, F_0_1>>
  /\ json.camera = "ok"
  /\ NothingStarted

(***************************************************************************)
(* C8.  Scene resolution fails fatally whenever the instancing dimension   *)
(* or interval is not a 3-element array (absent or of another size); a     *)
(* camera position that is not a 3-element array is not fatal: resolution  *)
(* logs a warning and continues with the default camera position.          *)
(***************************************************************************)
C8_MalformedInstancingIsFatal ==
  pc # "read_json_map" =>
    /\ (~IsArray3(json.dim_shape) \/ ~IsArray3(json.interval_shape))
         => Terminated /\ NothingStarted
    /\ (/\ ~IsArray3(json.camera)
        /\ json.dim_shape = "ok"
        /\ json.interval_shape = "ok"
        /\ ~NonPositive(json.dim, json.interval))
         => ~Terminated /\ camera_pos = "default"

\* The camera field absent: resolution went on, with the default position.
C8_Witness ==
  /\ json.camera = "absent"
  /\ pc = "api_prepare"
  /\ camera_pos = "default"
  /\ mlp_i = 1

\* C8 as stated: fatal whenever the dimension, the interval or the camera
\* position is not a 3-element array; never a default substituted.
C8_MalformedIsFatal ==
  (/\ pc # "read_json_map"
   /\ (~IsArray3(json.dim_shape) \/ ~IsArray3(json.interval_shape) \/ ~IsArray3(json.camera)))
    => Terminated

(***************************************************************************)
(* C9.  Topology selection: with the deferred flag the NeRF render pass    *)
(* has exactly 2 sub-passes and 5 attachments, and sub-pass 1 and the      *)
(* second-pass set layout use exactly 3 input attachments; without it the  *)
(* pass has exactly 1 sub-pass, 2 attachments and no input attachment,     *)
(* and no second-pass layout, pipeline or descriptor set is created.       *)
(***************************************************************************)
\* Number of input-attachment bindings of a set layout.
InputAttachmentBindings(layout) ==
  Cardinality({b \in 1..Len(device[layout].bindings) :
                 device[layout].bindings[b] = "INPUT_ATTACHMENT"})

\* Total number of input attachments over the sub-passes of a render pass.
RECURSIVE InputAttachmentCount(_)
InputAttachmentCount(subpasses) ==
  IF subpasses = << >> THEN 0
  ELSE Len(Head(subpasses).input) + InputAttachmentCount(Tail(subpasses))

C9_TopologySelection ==
  /\ render_pass_nerf # VK_NULL_HANDLE =>
       LET rp == device[render_pass_nerf]
       IN  IF use_deferred
           THEN /\ Len(rp.subpasses) = 2
                /\ Len(rp.attachments) = 5
                /\ Len(rp.subpasses[1].input) = 0
                /\ Len(rp.subpasses[2].input) = 3
           ELSE /\ Len(rp.subpasses) = 1
                /\ Len(rp.attachments) = 2
                /\ InputAttachmentCount(rp.subpasses) = 0
  /\ descriptor_set_layout_baseline # VK_NULL_HANDLE =>
       use_deferred /\ InputAttachmentBindings(descriptor_set_layout_baseline) = 3
  /\ ~use_deferred =>
       /\ descriptor_set_layout_baseline = VK_NULL_HANDLE
       /\ pipeline_layout_baseline = VK_NULL_HANDLE
       /\ pipeline_baseline = VK_NULL_HANDLE
       /\ descriptor_set_baseline = EmptyArr
       /\ shader_stages_second_pass = << >>
       /\ \A h \in DOMAIN device :
            /\ device[h].kind = "pipeline" => device[h].subpass = 0
            /\ device[h].kind = "set_layout" => h = descriptor_set_first_pass_layout
            /\ device[h].kind = "descriptor_set" =>
                 device[h].layout = descriptor_set_first_pass_layout
  /\ pc = "running" =>
       /\ \A i \in DOMAIN nerf_framebuffers :
            Len(device[nerf_framebuffers[i]].views)
              = Len(device[render_pass_nerf].attachments)
       /\ use_deferred =>
            /\ descriptor_set_layout_baseline # VK_NULL_HANDLE
            /\ pipeline_layout_baseline # VK_NULL_HANDLE
            /\ pipeline_baseline # VK_NULL_HANDLE
            /\ device[pipeline_baseline].subpass = 1
            /\ Size(descriptor_set_baseline) = Size(nerf_framebuffers)

\* A prepared deferred sample.
C9_Witness ==
  /\ pc = "running"
  /\ use_deferred
  /\ Len(device[render_pass_nerf].subpasses) = 2
  /\ Len(device[render_pass_nerf].subpasses[2].input) = 3
  /\ InputAttachmentBindings(descriptor_set_layout_baseline) = 3
  /\ pipeline_baseline # VK_NULL_HANDLE

(***************************************************************************)
(* C10.  Resize: a resize event destroys every frame attachment (deferred) *)
(* and every NeRF framebuffer and recreates them with the width and height *)
(* of the new surface extent, and re-records every command buffer against  *)
(* the recreated framebuffers; so the next frame submitted runs a command  *)
(* buffer whose framebuffer and views are live and of the current extent.  *)
(***************************************************************************)
\* The image, memory, view and sampler handles of the frame attachments fas.
AttachmentHandles(fas) ==
  UNION {{fas[i][Features[f]].image, fas[i][Features[f]].memory,
          fas[i][Features[f]].view, fas[i][Features[f]].sampler} :
           i \in DOMAIN fas, f \in 1..3}

\* Object h of dev is live and has extent e.
LiveWithExtent(dev, h, e) ==
  /\ h \in DOMAIN dev
  /\ dev[h].width = e.width
  /\ dev[h].height = e.height

C10_Resize ==
  [][/\ resizes' = resizes + 1 =>
          /\ surface_extent' # surface_extent
          /\ DOMAIN nerf_framebuffers' = DOMAIN swapchain_buffers'
          /\ \A i \in DOMAIN nerf_framebuffers : nerf_framebuffers[i] \notin DOMAIN device'
          /\ \A i \in DOMAIN nerf_framebuffers' :
               /\ nerf_framebuffers'[i] \notin DOMAIN device
               /\ LiveWithExtent(device', nerf_framebuffers'[i], surface_extent')
               /\ \A v \in Range(device'[nerf_framebuffers'[i]].views) :
                    LiveWithExtent(device', v, surface_extent')
          /\ use_deferred =>
               /\ Size(frameAttachments') = build.frames
               /\ AttachmentHandles(frameAttachments) \cap DOMAIN device' = {}
               /\ AttachmentHandles(frameAttachments') \cap DOMAIN device = {}
               /\ \A h \in AttachmentHandles(frameAttachments') :
                    LiveWithExtent(device', h, surface_extent')
               /\ \A i \in DOMAIN frameAttachments' : \A f \in 1..3 :
                    /\ frameAttachments'[i][Features[f]].width = surface_extent'.width
                    /\ frameAttachments'[i][Features[f]].height = surface_extent'.height
          /\ \A i \in DOMAIN draw_cmd_buffers' :
               /\ draw_cmd_buffers'[i].recordings > draw_cmd_buffers[i].recordings
               /\ draw_cmd_buffers'[i].framebuffer = nerf_framebuffers'[i]
               /\ draw_cmd_buffers'[i].renderArea = surface_extent'
     /\ frames_submitted' = frames_submitted + 1 =>
          /\ last_submit'[1].renderArea = surface_extent
          /\ LiveWithExtent(device, last_submit'[1].framebuffer, surface_extent)
          /\ \A v \in Range(device[last_submit'[1].framebuffer].views) :
               LiveWithExtent(device, v, surface_extent)
    ]_vars

\* A deferred sample that has submitted a frame after its second resize,
\* from a command buffer recorded against a framebuffer of the new extent.
C10_Witness ==
  /\ use_deferred
  /\ resizes = 2
  /\ frames_submitted >= 1
  /\ last_submit # << >>
  /\ last_submit[1].framebuffer \in Range(nerf_framebuffers)
  /\ last_submit[1].renderArea = surface_extent
  /\ \A i \in DOMAIN frameAttachments :
       frameAttachments[i].feature_0.width = surface_extent.width

(***************************************************************************)
(* C11.  No stale view: every recorded command buffer (the buffers a frame *)
(* submits) runs on nerf_framebuffers[i], whose image views are all live,  *)
(* the first three being, in deferred mode, the views of the current       *)
(* frameAttachments[i]; and the input-attachment bindings of               *)
(* descriptor_set_baseline[i], which the composition draw binds, are those *)
(* same live views.  This holds after prepare, which sets the attachments  *)
(* up twice, and after every resize.                                       *)
(***************************************************************************)
\* The three views of the current frameAttachments[i].
CurrentFeatureViews(i) ==
  <<frameAttachments[i].feature_0.view, frameAttachments[i].feature_1.view,
    frameAttachments[i].feature_2.view>>

C11_NoStaleView ==
  \A i \in DOMAIN draw_cmd_buffers :
    draw_cmd_buffers[i].recordings > 0 =>
      LET cb == draw_cmd_buffers[i]
      IN  /\ cb.framebuffer = nerf_framebuffers[i]
          /\ cb.framebuffer \in DOMAIN device
          /\ device[cb.framebuffer].kind = "framebuffer"
          /\ \A v \in Range(device[cb.framebuffer].views) : v \in DOMAIN device
          /\ cb.ui_framebuffer \in DOMAIN device
          /\ IF use_deferred
             THEN /\ SubSeq(device[cb.framebuffer].views, 1, 3) = CurrentFeatureViews(i)
                  /\ device[cb.framebuffer].views[4] = depth_stencil.view
                  /\ device[cb.framebuffer].views[5] = swapchain_buffers[i].view
                  /\ Len(cb.composition) = 1
                  /\ cb.composition[1].descriptor_set = descriptor_set_baseline[i]
                  /\ descriptor_set_baseline[i] \in DOMAIN device
                  /\ SubSeq(device[descriptor_set_baseline[i]].bindings, 1, 3)
                       = CurrentFeatureViews(i)
                  /\ \A k \in 1..3 :
                       /\ CurrentFeatureViews(i)[k] \in DOMAIN device
                       /\ device[CurrentFeatureViews(i)[k]].kind = "attachment"
             ELSE /\ device[cb.framebuffer].views
                       = <<depth_stencil.view, swapchain_buffers[i].view>>
                  /\ cb.composition = << >>

\* A deferred sample with two swapchain images that submits, after its
\* second resize, a command buffer recorded since that resize.
C11_Witness ==
  /\ use_deferred
  /\ build.frames = 2
  /\ resizes = 2
  /\ last_submit # << >>
  /\ last_submit[1].recordings = 5
  /\ last_submit[1] \in Range(draw_cmd_buffers)
  /\ SubSeq(device[descriptor_set_baseline[1]].bindings, 1, 3) = CurrentFeatureViews(1)

(***************************************************************************)
(* C12.  In the deferred topology the render pass declares a dependency    *)
(* from sub-pass 0 (colour-attachment-output stage, colour-attachment      *)
(* write) to sub-pass 1 (fragment-shader stage, input-attachment read)     *)
(* with the by-region flag, and every input attachment sub-pass 1 reads is *)
(* a colour attachment sub-pass 0 writes: the read of a pixel in sub-pass  *)
(* 1 is ordered after sub-pass 0's write of that pixel, and the scope of   *)
(* the ordering is the region, not the frame.                              *)
(***************************************************************************)
\* The dependencies of render pass rp that order the colour writes of
\* sub-pass s before the input-attachment reads of sub-pass d.
WriteBeforeInputRead(rp, s, d) ==
  {k \in 1..Len(rp.dependencies) :
     /\ rp.dependencies[k].srcSubpass = s
     /\ rp.dependencies[k].dstSubpass = d
     /\ "COLOR_ATTACHMENT_OUTPUT" \in rp.dependencies[k].srcStageMask
     /\ "COLOR_ATTACHMENT_WRITE" \in rp.dependencies[k].srcAccessMask
     /\ "FRAGMENT_SHADER" \in rp.dependencies[k].dstStageMask
     /\ "INPUT_ATTACHMENT_READ" \in rp.dependencies[k].dstAccessMask}

C12_SubpassDependency ==
  (use_deferred /\ render_pass_nerf # VK_NULL_HANDLE) =>
    LET rp == device[render_pass_nerf]
    IN  /\ Len(rp.subpasses) = 2
        /\ Range(rp.subpasses[2].input) \subseteq Range(rp.subpasses[1].color)
        /\ Cardinality(WriteBeforeInputRead(rp, 0, 1)) = 1
        /\ \A k \in WriteBeforeInputRead(rp, 0, 1) :
             /\ rp.dependencies[k].srcStageMask = {"COLOR_ATTACHMENT_OUTPUT"}
             /\ rp.dependencies[k].srcAccessMask = {"COLOR_ATTACHMENT_WRITE"}
             /\ rp.dependencies[k].dstStageMask = {"FRAGMENT_SHADER"}
             /\ rp.dependencies[k].dstAccessMask = {"INPUT_ATTACHMENT_READ"}
             /\ rp.dependencies[k].dependencyFlags = {"BY_REGION"}
        \* no dependency runs the other way
        /\ \A k \in 1..Len(rp.dependencies) :
             ~(rp.dependencies[k].srcSubpass = 1 /\ rp.dependencies[k].dstSubpass = 0)

\* A deferred sample has submitted a frame recorded with the composition
\* draw of sub-pass 1, on a render pass with the three dependencies.
C12_Witness ==
  /\ use_deferred
  /\ last_submit # << >>
  /\ Len(last_submit[1].composition) = 1
  /\ Len(device[render_pass_nerf].dependencies) = 3
  /\ WriteBeforeInputRead(device[render_pass_nerf], 0, 1) = {2}

(***************************************************************************)
(* C13.  Every recorded command buffer has this order of events: the NeRF  *)
(* pass begins; one indexed draw per model in sub-pass 0; if and only if   *)
(* deferred, the next sub-pass and exactly one draw of 3 vertices; the     *)
(* NeRF pass ends; then a separate UI pass begins, whose render pass loads *)
(* (does not clear) the colour attachment; the UI is drawn; the UI pass    *)
(* ends.  The UI pass never precedes the NeRF pass.                        *)
(***************************************************************************)
\* The positions of the commands called name in the command sequence c.
Positions(c, name) == {k \in 1..Len(c) : c[k].cmd = name}

C13_EventOrder ==
  \A i \in DOMAIN draw_cmd_buffers :
    draw_cmd_buffers[i].recordings > 0 =>
      LET c == draw_cmd_buffers[i].commands
          n == Len(c)
          drawsIndexed == Positions(c, "DrawIndexed")
          nextSubpass == Positions(c, "NextSubpass")
          draws == Positions(c, "Draw")
      IN  /\ Positions(c, "BeginRenderPass") = {1, n - 2}
          /\ Positions(c, "EndRenderPass") = {n - 3, n}
          /\ Positions(c, "DrawUi") = {n - 1}
          \* the NeRF pass first, on the NeRF render pass
          /\ c[1].args = <<render_pass_nerf, nerf_framebuffers[i]>>
          /\ Cardinality(drawsIndexed) = Size(models)
          /\ \A k \in drawsIndexed : 1 < k /\ k < n - 3
          /\ IF use_deferred
             THEN /\ nextSubpass = {n - 7}
                  /\ draws = {n - 4}
                  /\ c[n - 4].args = <<3, 1>>
                  /\ \A k \in drawsIndexed : k < n - 7
             ELSE /\ nextSubpass = {}
                  /\ draws = {}
          \* then the UI pass, on the framework's render pass, which loads
          /\ c[n - 2].args = <<render_pass, framebuffers[i]>>
          /\ render_pass # render_pass_nerf
          /\ render_pass \in DOMAIN device
          /\ device[render_pass].kind = "ui_render_pass"
          /\ device[render_pass].color_load_op = "LOAD"

\* A deferred sample with more than one model entry has submitted a frame:
\* two model draws, the composition draw, then the UI pass.
C13_Witness ==
  /\ use_deferred
  /\ Size(models) = 2
  /\ last_submit # << >>
  /\ Len(last_submit[1].commands) = 3 + 6 * 2 + 4 + 1 + 3
  /\ Positions(last_submit[1].commands, "NextSubpass") = {16}
  /\ last_submit[1].commands[22].cmd = "DrawUi"

(***************************************************************************)
(* C14.  In every recorded command buffer, for every Model entry exactly   *)
(* one indexed-instanced draw is issued, after that model's pipeline, its  *)
(* descriptor set, its vertex buffer, the shared instance buffer and its   *)
(* index buffer were bound; the index count is 3 times the model's         *)
(* triangle count and the instance count is dim.x * dim.y * dim.z, the     *)
(* number of offsets stored in the instance buffer.                        *)
(***************************************************************************)
\* dim.x * dim.y * dim.z
LatticeSize ==
  instancing_info.dim[1] * instancing_info.dim[2] * instancing_info.dim[3]

C14_DrawPerModel ==
  \A i \in DOMAIN draw_cmd_buffers :
    draw_cmd_buffers[i].recordings > 0 =>
      LET c == draw_cmd_buffers[i].commands
      IN  /\ Cardinality({p \in 1..Len(c) : c[p].cmd = "DrawIndexed"}) = Size(models)
          /\ LatticeSize = Size(instance_data)
          /\ \A k \in DOMAIN models :
               LET b == 3 + 6 * k
                   m == models[k]
               IN  /\ c[b + 1].cmd = "BindPipeline"
                   /\ c[b + 1].args = <<m.pipeline_first_pass>>
                   /\ device[m.pipeline_first_pass].kind = "pipeline"
                   /\ c[b + 2].cmd = "BindDescriptorSets"
                   /\ c[b + 2].args[2] \in Range(m.descriptor_set_first_pass)
                   /\ device[c[b + 2].args[2]].kind = "descriptor_set"
                   /\ c[b + 3].cmd = "BindVertexBuffers"
                   /\ c[b + 3].args = <<0, m.vertex_buffer>>
                   /\ c[b + 4].cmd = "BindVertexBuffers"
                   /\ c[b + 4].args = <<1, instance_buffer>>
                   /\ c[b + 5].cmd = "BindIndexBuffer"
                   /\ c[b + 5].args = <<m.index_buffer>>
                   /\ {m.vertex_buffer, m.index_buffer, instance_buffer} \subseteq DOMAIN device
                   /\ Cardinality({m.vertex_buffer, m.index_buffer, instance_buffer}) = 3
                   /\ c[b + 6].cmd = "DrawIndexed"
                   /\ m.indices > 0
                   /\ c[b + 6].args = <<3 * m.indices, Size(instance_data)>>
                   \* no other model entry shares the vertex or index buffer
                   /\ \A j \in DOMAIN models \ {k} :
                        {m.vertex_buffer, m.index_buffer}
                          \cap {models[j].vertex_buffer, models[j].index_buffer} = {}

\* A frame was submitted that draws four model entries (two top-level
\* models of two sub-models) of original NeRF models (8 meshes each) on a
\* 2 x 1 x 2 lattice.
C14_Witness ==
  /\ Size(models) = 4
  /\ last_submit # << >>
  /\ Size(instance_data) = 4
  /\ using_original_nerf_models[0]
  /\ last_submit[1].commands[9].cmd = "DrawIndexed"
  /\ last_submit[1].commands[9].args = <<36, 4>>
  /\ last_submit[1].commands[27].cmd = "DrawIndexed"

(***************************************************************************)
(* C15.  After prepare the models list has exactly one entry per pair of a *)
(* top-level model m and one of its sub-models s, the sum of the obj_num   *)
(* values in total; the entry of (m, s) carries model_index m and is       *)
(* loaded exactly once, with the arguments (m, s); the loading loop ends   *)
(* with models_entry equal to models.size().  A non-combo scene of one     *)
(* model with one sub-model and a 1 x 1 x 1 lattice yields exactly one     *)
(* Model entry, and each command buffer holds exactly one model draw, of   *)
(* instance count 1.  (obj_num is at least 1 in every description.)        *)
(***************************************************************************)
\* obj_num of the models before model m, summed: the entry of (m, 0).
RECURSIVE FirstEntry(_)
FirstEntry(m) == IF m = 0 THEN 0 ELSE FirstEntry(m - 1) + mlp_json[m - 1].obj_num

\* The loading loop has run.
Loaded ==
  pc \in {"create_uniforms", "instance_data", "layout_first_pass", "layout_baseline",
          "descriptor_pool", "descriptor_sets_first_pass", "descriptor_sets_baseline",
          "pipelines", "build_command_buffers", "running"}

UniformsCreated ==
  pc \in {"instance_data", "layout_first_pass", "layout_baseline",
          "descriptor_pool", "descriptor_sets_first_pass", "descriptor_sets_baseline",
          "pipelines", "build_command_buffers", "running"}

\* The buffers of the device that are no vertex, index or instance buffer.
SharedBuffers ==
  {h \in DOMAIN device : device[h].kind = "buffer"}
    \ ({instance_buffer}
         \cup {models[k].vertex_buffer : k \in DOMAIN models}
         \cup {models[k].index_buffer : k \in DOMAIN models})

C16_OneBufferPerModel ==
  /\ pc \notin {"read_json_map", "mlp", "exited", "aborted", "crashed"} =>
       Size(mlp_weight_vector) = Size(model_path)
  /\ UniformsCreated =>
       LET n == Size(model_path)
       IN  /\ DOMAIN uniform_buffers = 0..(n - 1)
           /\ DOMAIN weights_buffers = 0..(n - 1)
           /\ Cardinality(Range(uniform_buffers) \cup Range(weights_buffers)) = 2 * n
           /\ SharedBuffers = Range(uniform_buffers) \cup Range(weights_buffers)
           /\ \A k \in DOMAIN models :
                /\ models[k].uniform_buffer_ref = models[k].model_index
                /\ models[k].weights_buffer_ref = models[k].model_index
           \* the sub-models of one top-level model share its buffers
           /\ \A j, k \in DOMAIN models :
                models[j].model_index = models[k].model_index =>
                  /\ uniform_buffers[models[j].uniform_buffer_ref]
                       = uniform_buffers[models[k].uniform_buffer_ref]
                  /\ weights_buffers[models[j].weights_buffer_ref]
                       = weights_buffers[models[k].weights_buffer_ref]

\* A combo scene of two models with two sub-models each is running: four
\* entries, two weights buffers, two uniform buffers.
C16_Witness ==
  /\ pc = "running"
  /\ Size(model_path) = 2
  /\ Size(models) = 4
  /\ Cardinality(SharedBuffers) = 4
  /\ models[1].weights_buffer_ref = 0
  /\ models[2].weights_buffer_ref = 1
  /\ frames_submitted > 0

(***************************************************************************)
(* C17.  Every load-time upload (the vertex and index buffer and the two   *)
(* feature textures of every model entry, and the instance buffer) follows *)
(* the one-shot protocol in this order: staging allocated, staging filled, *)
(* destination allocated, copy recorded, a barrier on the destination      *)
(* recorded after the copy, submission, the host's wait for the            *)
(* submission, and only then the release of the staging region: no staging *)
(* region is released between the submission of its copy and the end of    *)
(* the wait.                                                               *)
(***************************************************************************)
\* The positions of the events op of destination u in the upload log.
UploadPositions(op, u) ==
  {p \in 1..Len(upload_log) : upload_log[p].op = op /\ u \in upload_log[p].res}

\* The destinations an upload was started for.
Uploaded ==
  UNION {upload_log[p].res : p \in {q \in 1..Len(upload_log) :
                                      upload_log[q].op = "staging_alloc"}}

\* The only element of a one-element set of positions.
Only(S) == CHOOSE p \in S : TRUE

C17_UploadProtocol ==
  /\ \A u \in Uploaded :
       /\ \A op \in {"staging_alloc", "staging_fill", "dest_alloc", "copy",
                     "submit", "wait", "staging_release"} :
            Cardinality(UploadPositions(op, u)) = 1
       /\ Only(UploadPositions("staging_alloc", u)) < Only(UploadPositions("staging_fill", u))
       /\ Only(UploadPositions("staging_fill", u)) < Only(UploadPositions("dest_alloc", u))
       /\ Only(UploadPositions("dest_alloc", u)) < Only(UploadPositions("copy", u))
       /\ \E b \in UploadPositions("barrier", u) :
            /\ Only(UploadPositions("copy", u)) < b
            /\ b < Only(UploadPositions("submit", u))
       /\ Only(UploadPositions("submit", u)) < Only(UploadPositions("wait", u))
       /\ Only(UploadPositions("wait", u)) < Only(UploadPositions("staging_release", u))
       /\ u \in DOMAIN device
  /\ Loaded =>
       \A k \in DOMAIN models :
         {models[k].vertex_buffer, models[k].index_buffer,
          models[k].texture_input_0, models[k].texture_input_1} \subseteq Uploaded
  /\ instance_buffer # VK_NULL_HANDLE => instance_buffer \in Uploaded
  /\ Uploaded \subseteq
       {instance_buffer} \cup UNION {{models[k].vertex_buffer, models[k].index_buffer,
                                      models[k].texture_input_0, models[k].texture_input_1} :
                                       k \in DOMAIN models}

\* Four model entries and the instance buffer have been uploaded: 17
\* uploads, the vertex and index buffer of an entry sharing one submission.
C17_Witness ==
  /\ Size(models) = 4
  /\ instance_buffer # VK_NULL_HANDLE
  /\ Cardinality(Uploaded) = 17
  /\ Len(upload_log) = 4 * (9 + 9 + 14) + 8
  /\ \E p \in 1..Len(upload_log) :
       /\ upload_log[p].op = "wait"
       /\ upload_log[p].res = {models[3].vertex_buffer, models[3].index_buffer}

(***************************************************************************)
(* C18.  When a weight or bias count of the MLP description differs from   *)
(* the expected constant, the packer logs the mismatch and does not abort: *)
(* packing runs to its end, every sub-model is registered and prepare goes *)
(* on with the packed buffer.  (Stated for the builds whose layer-2 bias   *)
(* segment is one group of four, where a description with the expected     *)
(* counts is packed without fault.)                                        *)
(***************************************************************************)
C18_MismatchContinues ==
  (/\ build.gb = 1
   /\ pc \notin {"read_json_map", "mlp"}
   /\ CountErrors(0, mlp_json[0]) # {}) =>
     /\ CountErrors(0, mlp_json[0]) \subseteq mlp_log
     /\ pc = "api_prepare"
     /\ Size(models) = mlp_json[0].obj_num
     /\ \A k \in DOMAIN models :
          /\ models[k].model_index = 0
          /\ models[k].sub_model_num = mlp_json[0].obj_num

(***************************************************************************)
(* C19.  Shader and sampler variant selection is per model: for every      *)
(* top-level model k of the scene, the fragment shader of the first-pass   *)
(* pipelines that draw its sub-models and the filter of the samplers of    *)
(* its feature textures are the ones chosen by model k's own flag          *)
(* using_original_nerf_models[k], also when the flags of a combo scene     *)
(* differ between models.                                                  *)
(***************************************************************************)
C19_PerModelVariant ==
  \A e \in DOMAIN models :
    LET own == using_original_nerf_models[models[e].model_index]
    IN  /\ models[e].texture_input_0 # VK_NULL_HANDLE =>
             /\ device[models[e].texture_input_0].filter = SamplerFilter(own)
             /\ device[models[e].texture_input_1].filter = SamplerFilter(own)
        /\ models[e].pipeline_first_pass # VK_NULL_HANDLE =>
             device[models[e].pipeline_first_pass].stages
               = FirstPassShaders(use_deferred, own)

(***************************************************************************)
(* C20.  Descriptor sets per model.  In forward mode every Model entry     *)
(* owns exactly one first-pass descriptor set per swapchain framebuffer,   *)
(* each binding the entry's two feature textures, the camera uniform and   *)
(* the weights of its top-level model, and command buffer i binds set i.   *)
(* In deferred mode every Model entry owns exactly one first-pass set,     *)
(* which binds no weights, and every command buffer binds set 0.           *)
(***************************************************************************)
\* prepare has run create_descriptor_sets_first_pass for every model.
FirstPassSetsCreated ==
  pc \in {"descriptor_sets_baseline", "pipelines", "build_command_buffers", "running"}

C20_DescriptorSetsPerModel ==
  FirstPassSetsCreated =>
    /\ Size(swapchain_buffers) = build.frames
    /\ \A k \in DOMAIN models :
         LET m    == models[k]
             sets == m.descriptor_set_first_pass
         IN  /\ DOMAIN sets =
                  0..((IF use_deferred THEN 1 ELSE Size(swapchain_buffers)) - 1)
             /\ Cardinality(Range(sets)) = Size(sets)
             /\ \A j \in DOMAIN models \ {k} :
                  Range(sets) \cap Range(models[j].descriptor_set_first_pass) = {}
             /\ \A s \in DOMAIN sets :
                  /\ sets[s] \in DOMAIN device
                  /\ device[sets[s]].kind = "descriptor_set"
                  /\ device[sets[s]].bindings =
                       IF use_deferred
                       THEN <<m.texture_input_0, m.texture_input_1,
                              uniform_buffers[m.model_index]>>
                       ELSE <<m.texture_input_0, m.texture_input_1,
                              uniform_buffers[m.model_index],
                              weights_buffers[m.model_index]>>
                  /\ device[m.texture_input_0].kind = "texture"
                  /\ device[m.texture_input_1].kind = "texture"
                  /\ m.texture_input_0 # m.texture_input_1
             /\ \A i \in DOMAIN draw_cmd_buffers :
                  draw_cmd_buffers[i].recordings > 0 =>
                    /\ i \in DOMAIN swapchain_buffers
                    /\ draw_cmd_buffers[i].commands[3 + 6 * k + 2].cmd = "BindDescriptorSets"
                    /\ draw_cmd_buffers[i].commands[3 + 6 * k + 2].args[2]
                         = sets[IF use_deferred THEN 0 ELSE i]

\* Forward mode on two swapchain images with four Model entries: every
\* entry owns two sets, and the submitted command buffer 1 bound set 1 of
\* the last entry.
C20_Witness ==
  /\ pc = "running"
  /\ ~use_deferred
  /\ Size(swapchain_buffers) = 2
  /\ Size(models) = 4
  /\ Size(models[3].descriptor_set_first_pass) = 2
  /\ last_submit # << >>
  /\ last_submit[1].commands[3 + 6 * 3 + 2].args[2] = models[3].descriptor_set_first_pass[1]
  /\ Len(device[models[3].descriptor_set_first_pass[1]].bindings) = 4

(***************************************************************************)
(* C21.  Frame attachment ownership.  In deferred mode, once the           *)
(* attachments are set up and after any sequence of resizes, exactly three *)
(* frame attachments (feature_0, feature_1, feature_2) are live per render *)
(* frame: the live attachment objects are exactly the image, memory, view  *)
(* and sampler of the current frameAttachments, so a rebuild leaks none;   *)
(* no destroy call is ever made on a handle that is not live (nothing is   *)
(* destroyed twice); after shutdown no attachment object is live.  In      *)
(* forward mode no frame attachment is ever allocated.                     *)
(***************************************************************************)
\* The live objects that belong to frame attachments.
AttachmentObjects == {h \in DOMAIN device : device[h].kind = "attachment"}

\* setup_nerf_framebuffer_baseline has run and the sample is not closed.
AttachmentsSetUp ==
  pc \notin {"read_json_map", "mlp", "api_prepare", "prepare_failed", "crashed",
             "load_shaders", "render_pass", "framebuffer", "destroyed"}

C21_AttachmentOwnership ==
  /\ invalid_destroys = {}
  /\ ~use_deferred => (AttachmentObjects = {} /\ frameAttachments = EmptyArr)
  /\ pc = "destroyed" => AttachmentObjects = {}
  /\ (use_deferred /\ AttachmentsSetUp) =>
       /\ DOMAIN frameAttachments = 0..(build.frames - 1)
       /\ AttachmentObjects = AttachmentHandles(frameAttachments)
       /\ Cardinality(AttachmentObjects) = 4 * 3 * build.frames

\* A deferred sample on two render frames was closed after two resizes:
\* its 24 attachment objects, the fourth generation, are gone.
C21_Witness ==
  /\ pc = "destroyed"
  /\ use_deferred
  /\ build.frames = 2
  /\ resizes = 2
  /\ Cardinality(AttachmentHandles(frameAttachments)) = 24
  /\ AttachmentHandles(frameAttachments) \cap DOMAIN device = {}

EntryHandles(k) ==
  <<models[k].texture_input_0, models[k].texture_input_1,
    models[k].vertex_buffer, models[k].index_buffer>>

\* Entry k has been loaded and uploaded.
EntryLoaded(k) == models[k].texture_input_0 # VK_NULL_HANDLE

\* Every handle of the set A is smaller than every handle of the set B.
AllBefore(A, B) == \A a \in A : \A b \in B : a < b

\* The first-pass descriptor sets of all entries.
AllFirstPassSets == UNION {Range(models[k].descriptor_set_first_pass) : k \in DOMAIN models}

\* The pipelines of all entries that have one.
AllPipelines == {models[k].pipeline_first_pass : k \in DOMAIN models} \ {VK_NULL_HANDLE}

\* C23 as stated: the stages are strictly sequential, each finished for all
\* models before the next starts: geometry and texture loading, then the
\* staged upload of the static buffers, then the pass topology (render
\* pass), pipelines and descriptor sets, then the recording.  So the render
\* pass exists only once every entry is uploaded, and every texture of every
\* entry was loaded before any entry's static buffers were uploaded.
C23_StagesStrict ==
  /\ render_pass_nerf # VK_NULL_HANDLE =>
       \A k \in DOMAIN models : models[k].vertex_buffer # VK_NULL_HANDLE
  /\ \A j, k \in DOMAIN models :
       (EntryLoaded(j) /\ EntryLoaded(k)) =>
         AllBefore({models[j].texture_input_0, models[j].texture_input_1},
                   {models[k].vertex_buffer, models[k].index_buffer})

\* C23, amended: scene resolution; MLP packing for every model; the shaders,
\* the render pass and the framebuffers; then the Model entries one after
\* another, each entry's geometry and textures loaded and its static buffers
\* uploaded before the next entry is started; then the uniform buffers and
\* the instance buffer; then the pipeline layouts, the descriptor pool, the
\* descriptor sets and the pipelines; last the recording of the frame
\* commands.
C23_StartupOrder ==
  /\ pc = "mlp" => (Size(model_path) >= 1 /\ DOMAIN device = {})
  /\ DOMAIN device # {} =>
       /\ mlp_i = Size(model_path)
       /\ Size(mlp_weight_vector) = Size(model_path)
       /\ Size(models) >= Size(model_path)
  /\ render_pass_nerf # VK_NULL_HANDLE => shader_stages_first_pass # << >>
  /\ Range(nerf_framebuffers) # {} => render_pass_nerf # VK_NULL_HANDLE
  /\ \A k \in DOMAIN models :
       EntryLoaded(k) =>
         /\ render_pass_nerf # VK_NULL_HANDLE
         /\ render_pass_nerf < models[k].texture_input_0
         /\ Range(nerf_framebuffers) # {}
         /\ \A p \in 1..3 : EntryHandles(k)[p] < EntryHandles(k)[p + 1]
         /\ \A j \in DOMAIN models :
              j < k => (EntryLoaded(j) /\ EntryHandles(j)[4] < EntryHandles(k)[1])
  /\ DOMAIN uniform_buffers # {} =>
       /\ \A k \in DOMAIN models : EntryLoaded(k)
       /\ AllBefore(UNION {Range(EntryHandles(k)) : k \in DOMAIN models},
                    Range(uniform_buffers) \cup Range(weights_buffers))
  /\ instance_buffer # VK_NULL_HANDLE =>
       /\ DOMAIN uniform_buffers # {}
       /\ AllBefore(Range(uniform_buffers) \cup Range(weights_buffers), {instance_buffer})
  /\ pipeline_first_pass_layout # VK_NULL_HANDLE =>
       (instance_buffer # VK_NULL_HANDLE /\ instance_buffer < pipeline_first_pass_layout)
  /\ descriptor_pool # VK_NULL_HANDLE =>
       (pipeline_first_pass_layout # VK_NULL_HANDLE
          /\ pipeline_first_pass_layout < descriptor_pool)
  /\ AllFirstPassSets # {} =>
       (descriptor_pool # VK_NULL_HANDLE /\ AllBefore({descriptor_pool}, AllFirstPassSets))
  /\ AllPipelines # {} =>
       /\ \A k \in DOMAIN models : models[k].descriptor_set_first_pass # EmptyArr
       /\ AllBefore(AllFirstPassSets \cup Range(descriptor_set_baseline), AllPipelines)
       /\ use_deferred => Range(descriptor_set_baseline) # {}
  /\ \A i \in DOMAIN draw_cmd_buffers :
       draw_cmd_buffers[i].recordings > 0 =>
         /\ \A k \in DOMAIN models : models[k].pipeline_first_pass # VK_NULL_HANDLE
         /\ use_deferred => pipeline_baseline # VK_NULL_HANDLE

\* A deferred combo scene of four Model entries has been prepared: every
\* stage has run and the command buffers are recorded.
C23_Witness ==
  /\ pc = "running"
  /\ use_deferred
  /\ Size(models) = 4
  /\ \A k \in DOMAIN models : EntryLoaded(k)
  /\ Cardinality(AllPipelines) = 4
  /\ \A i \in DOMAIN draw_cmd_buffers : draw_cmd_buffers[i].recordings > 0

(***************************************************************************)
(* C24.  For every top-level model, the MLP weights bound for shading that *)
(* model's pixels are the model's own weights buffer, in both topologies:  *)
(* in forward mode binding 3 of each of the model's first-pass sets, in    *)
(* deferred mode binding 3 of the composition descriptor set that composes *)
(* the model's pixels; a combo scene never composes one model's pixels     *)
(* with another model's weights.                                           *)
(***************************************************************************)
\* The descriptor sets that command buffer c binds for the shading of the
\* pixels of entry k: in forward mode the first-pass set bound for entry
\* k's draw, in deferred mode the composition set bound after NextSubpass,
\* which shades the pixels of every entry.
ShadingSets(c, k) ==
  IF use_deferred
  THEN {c.commands[p].args[2] :
          p \in {x \in DOMAIN c.commands :
                   /\ c.commands[x].cmd = "BindDescriptorSets"
                   /\ c.commands[x].args[1] = pipeline_layout_baseline}}
  ELSE {c.commands[3 + 6 * k + 2].args[2]}

C24_OwnWeights ==
  \A i \in DOMAIN draw_cmd_buffers :
    draw_cmd_buffers[i].recordings > 0 =>
      \A k \in DOMAIN models :
        /\ ShadingSets(draw_cmd_buffers[i], k) # {}
        /\ \A s \in ShadingSets(draw_cmd_buffers[i], k) :
             /\ Len(device[s].bindings) = 4
             /\ device[s].bindings[4] = weights_buffers[models[k].model_index]

(***************************************************************************)
(* C25.  For any MLP description, no packing loop of                       *)
(* initialize_mlp_uniform_buffers reads a source weight or bias array at   *)
(* an index greater than or equal to that array's length, and the layer-2  *)
(* weight read counter ends equal to the source length: every source       *)
(* element is copied exactly once.                                         *)
(***************************************************************************)
\* The writes of the packing of description d whose source read fell past
\* the end of the source array.
OutOfBoundsReads(d) == {j \in DOMAIN PackWrites(d) : PackWrites(d)[j].val = OOB}

\* raw_weight_cnt when the layer-2 weight loop ends: one read per position
\* that is not a padding position.
FinalRawWeightCnt ==
  Cardinality({ii \in 0..(WEIGHTS_2_COUNT - 1) : (ii + 1) % 4 # 0})

C25_ReadsInBounds ==
  \A m \in DOMAIN mlp_json :
    (m < mlp_i \/ (pc = "crashed" /\ m = mlp_i)) =>
      /\ OutOfBoundsReads(mlp_json[m]) = {}
      /\ FinalRawWeightCnt = Len(Flatten(mlp_json[m].weights_2))

(***************************************************************************)
(* C26.  Index bounds during recording: after prepare and after any        *)
(* sequence of resizes, also one that changes the number of swapchain      *)
(* images, every access nerf_framebuffers[i],                              *)
(* descriptor_set_first_pass[descriptorIndex], descriptor_set_baseline[i]  *)
(* and frameAttachments[i] that build_command_buffers_baseline and the     *)
(* set-up it calls make is within the bounds of its container.             *)
(***************************************************************************)
C26_IndexBounds == index_errors = {}

(***************************************************************************)
(* C27.  Attachment indexing is consistent within each topology: for every *)
(* attachment index k, the render-pass attachment description k, the       *)
(* framebuffer view k and the clear value k denote the same attachment     *)
(* (deferred: feature 0, feature 1, auxiliary feature 2, depth, swapchain  *)
(* colour; forward: depth, swapchain colour); their counts are equal (5 or *)
(* 2); each frame attachment is created with the format the render pass    *)
(* declares for it; and each pipeline's blend-attachment count equals the  *)
(* colour-attachment count of the sub-pass it is built for.                *)
(***************************************************************************)
\* What attachment k of the NeRF render pass rp is, by its sub-pass
\* references and its format.
AttachmentRole(rp, k) ==
  IF \E sp \in DOMAIN rp.subpasses : k \in Range(rp.subpasses[sp].depth) THEN "depth"
  ELSE IF rp.attachments[k + 1] = "swapchain_format" THEN "swapchain"
  ELSE "feature"

\* View v, the k-th view of nerf_framebuffers[i], is an image view of the
\* attachment with the given role.
ViewHasRole(v, role, i, k) ==
  IF role = "depth" THEN (v = depth_stencil.view /\ device[v].kind = "depth_view")
  ELSE IF role = "swapchain"
  THEN (v = swapchain_buffers[i].view /\ device[v].kind = "swapchain_view")
  ELSE /\ k < 3
       /\ v = frameAttachments[i][Features[k + 1]].view
       /\ device[v].kind = "attachment"

C27_AttachmentIndexing ==
  /\ \A i \in DOMAIN nerf_framebuffers :
       nerf_framebuffers[i] \in DOMAIN device =>
         LET fb == device[nerf_framebuffers[i]]
             rp == device[fb.renderPass]
             n  == IF use_deferred THEN 5 ELSE 2
         IN  /\ fb.renderPass = render_pass_nerf
             /\ Len(rp.attachments) = n
             /\ Len(fb.views) = n
             /\ Len(ClearValues) = n
             /\ \A k \in 0..(n - 1) :
                  /\ ViewHasRole(fb.views[k + 1], AttachmentRole(rp, k), i, k)
                  /\ (ClearValues[k + 1] = "depthStencil") <=> (AttachmentRole(rp, k) = "depth")
                  /\ AttachmentRole(rp, k) = "feature" =>
                       frameAttachments[i][Features[k + 1]].format = rp.attachments[k + 1]
             /\ draw_cmd_buffers[i].recordings > 0 =>
                  /\ draw_cmd_buffers[i].clear_values = ClearValues
                  /\ draw_cmd_buffers[i].framebuffer = nerf_framebuffers[i]
  /\ \A h \in DOMAIN device :
       device[h].kind = "pipeline" =>
         device[h].blend_attachments
           = Len(device[device[h].renderPass].subpasses[device[h].subpass + 1].color)

\* A deferred sample is running after a resize: five attachments per
\* framebuffer, a composition pipeline with one blend attachment and
\* first-pass pipelines with three.
C27_Witness ==
  /\ pc = "running"
  /\ use_deferred
  /\ resizes >= 1
  /\ pipeline_baseline \in DOMAIN device
  /\ device[pipeline_baseline].blend_attachments = 1
  /\ device[models[0].pipeline_first_pass].blend_attachments = 3
  /\ \A i \in DOMAIN nerf_framebuffers : Len(device[nerf_framebuffers[i]].views) = 5
  /\ \A i \in DOMAIN draw_cmd_buffers : Len(draw_cmd_buffers[i].clear_values) = 5

(***************************************************************************)
(* C28.  Descriptor pool capacity is never exceeded: for every number of   *)
(* models M and of framebuffers F, the descriptor sets allocated by        *)
(* create_descriptor_sets_first_pass and create_descriptor_sets_baseline   *)
(* number at most the pool's maxSets (M + F deferred, M * F forward), and  *)
(* the descriptors written of each type number at most what the pool       *)
(* reserves for that type (entries of the same type add up).               *)
(***************************************************************************)
DescriptorTypes == {"COMBINED_IMAGE_SAMPLER", "UNIFORM_BUFFER", "INPUT_ATTACHMENT"}

RECURSIVE PoolCapacity(_, _, _)
\* What pool_sizes[1..k] reserve for descriptors of type t.
PoolCapacity(sizes, t, k) ==
  IF k = 0 THEN 0
  ELSE PoolCapacity(sizes, t, k - 1)
         + (IF sizes[k].type = t THEN sizes[k].descriptorCount ELSE 0)

\* The descriptor sets allocated so far.
DescriptorSets == {h \in DOMAIN device : device[h].kind = "descriptor_set"}

\* The descriptors of type t written so far: binding j of set h.
DescriptorsWritten(t) ==
  {<<h, j>> \in DescriptorSets \X (1..4) :
     /\ j \in DOMAIN device[h].bindings
     /\ device[device[h].layout].bindings[j] = t}

C28_PoolCapacity ==
  descriptor_pool \in DOMAIN device =>
    LET pool == device[descriptor_pool]
    IN  /\ pool.maxSets = IF use_deferred
                          THEN Size(models) + Size(nerf_framebuffers)
                          ELSE Size(models) * Size(nerf_framebuffers)
        /\ pool.allocated = Cardinality(DescriptorSets)
        /\ pool.allocated <= pool.maxSets
        /\ \A t \in DescriptorTypes :
             Cardinality(DescriptorsWritten(t))
               <= PoolCapacity(pool.poolSizes, t, Len(pool.poolSizes))

\* Every descriptor set of a deferred sample with two models and two
\* framebuffers has been allocated: the pool is full.
C28_Witness ==
  /\ pc = "running"
  /\ use_deferred
  /\ Size(models) = 2
  /\ Size(nerf_framebuffers) = 2
  /\ device[descriptor_pool].allocated = 4
  /\ Cardinality(DescriptorsWritten("UNIFORM_BUFFER")) = 4
  /\ Cardinality(DescriptorsWritten("INPUT_ATTACHMENT")) = 6

(***************************************************************************)
(* C29.  In update_uniform_buffers, for every scene the asset map can      *)
(* describe, the per-model translation is read within bounds: in combo     *)
(* mode model i reads entry i of the 4-entry translation table with i < 4  *)
(* for every top-level model, outside combo mode the translation is the    *)
(* identity; and uniform_buffers, weights_buffers and mlp_weight_vector    *)
(* are indexed only below the number of top-level models.                  *)
(***************************************************************************)
C29_TranslationInBounds ==
  /\ \A a \in index_errors : a.container \notin
       {"model_translation", "uniform_buffers", "weights_buffers", "mlp_weight_vector"}
  /\ \A i \in DOMAIN model_path :
       Size(uniform_buffers) > 0 =>
       ModelTranslation(combo_mode, i) =
         IF combo_mode THEN [kind |-> "model_translation", entry |-> i]
         ELSE [kind |-> "identity", entry |-> 0]

(***************************************************************************)
(* C30.  The render hook submits nothing and writes no uniform buffer      *)
(* while prepared is false; prepared becomes true only at the end of a     *)
(* successful prepare, after build_command_buffers has recorded every draw *)
(* command buffer, so every command buffer ever submitted has been         *)
(* recorded; and in each prepared render call the submission precedes the  *)
(* uniform-buffer update: the frame sees the uniforms of the call before.  *)
(***************************************************************************)
AllRecorded(cbs) == \A i \in DOMAIN cbs : cbs[i].recordings > 0

\* Some uniform or weights buffer is written in this step.
UniformsWritten ==
  \E h \in Range(uniform_buffers) \cup Range(weights_buffers) :
    h \in DOMAIN device /\ device'[h].updates # device[h].updates

C30_SubmittedRecorded ==
  /\ prepared => AllRecorded(draw_cmd_buffers)
  /\ last_submit # << >> =>
       /\ last_submit[1].recordings > 0
       /\ \A i \in DOMAIN uniform_buffers :
            last_submit[2][i] < device[uniform_buffers[i]].updates

C30_RenderStep ==
  /\ frames_submitted' # frames_submitted =>
       /\ prepared
       /\ last_submit'[1] \in Range(draw_cmd_buffers)
       /\ UniformsWritten
  /\ (pc = "running" /\ UniformsWritten) =>
       /\ prepared
       /\ frames_submitted' = frames_submitted + 1
  /\ (~prepared /\ prepared') =>
       /\ pc = "build_command_buffers"
       /\ pc' = "running"
       /\ AllRecorded(draw_cmd_buffers')

C30_RenderWhenPrepared == [](C30_SubmittedRecorded) /\ [][C30_RenderStep]_vars

\* Two frames have been submitted around a resize; the last one saw the
\* uniforms written by the render call before it.
C30_Witness ==
  /\ prepared
  /\ frames_submitted = 2
  /\ resizes >= 1
  /\ last_submit # << >>
  /\ last_submit[1].recordings >= 3
  /\ \A i \in DOMAIN uniform_buffers :
       /\ last_submit[2][i] = 2
       /\ device[uniform_buffers[i]].updates = 3

=============================================================================
